---- MODULE Spec2Model ----
(***************************************************************************)
(* State-machine model of the profile_info portfolio client.               *)
(*                                                                         *)
(* Three generations of the data layer live in the repository:             *)
(*   "v4"  src/unnamed/part_004        getPortfolioData with GraphQL pins,  *)
(*                                     tags and stats (cache gh_portfolio_v4)*)
(*   "v2"  src/services/githubService.ts getPortfolioData with the static   *)
(*                                     snapshot and the stale fallback      *)
(*   App   src/unnamed/part_000 + part_005: the App component, its own      *)
(*         cache slot (coffee_code_cache) and the individual fetchers       *)
(* The service variants share the variables of the first group and are     *)
(* told apart by the variable variant; the App has its own group.          *)
(***************************************************************************)
EXTENDS Integers, Sequences, FiniteSets, Bags, TLC

\* ------------------------------------------------------------------ bounds
MaxSlack  == 1      \* the clock reaches CACHE_TTL + MaxSlack milliseconds
MaxVal    == 2      \* distinct payloads the server can answer with
MaxRepos  == 7      \* longest repo list of the exhaustive aggregation runs
MaxStars  == 1      \* largest star count of the exhaustive aggregation runs
MaxLoads  == 2      \* loadData calls in flight together

\* ------------------------------------------------------- program constants
CACHE_TTL           == 60 * 60 * 1000
RESET_FALLBACK_SECS == 3600
PINNED_LIMIT        == 6
TAG_GENERAL_LIMIT   == 5

VARIABLES
  now,          \* Date.now(), milliseconds
  \* ---- service (getPortfolioData), variants v2 and v4
  variant,      \* which getPortfolioData is running: "v2" or "v4"
  storage,      \* localStorage[CONFIG.CACHE_KEY]: <<>> or <<raw>>
  pc,           \* position of the getPortfolioData call
  force,        \* its forceRefresh argument
  res,          \* state of its four sub-fetches
  agg,          \* v4: values held across the await of the tag lookups
  ret,          \* what the call returned or threw
  requests,     \* network requests the call has issued
  storage0,     \* localStorage[CONFIG.CACHE_KEY] when the call was made
  written       \* the snapshot of the last setCache that storage accepted

svcVars == <<variant, storage, pc, force, res, agg, ret, requests, storage0, written>>

VARIABLES
  \* ---- the App component (part_000) on the fetchers of part_005
  loading, user, repos, pinnedRepos, followers,   \* useState of App; user 0 is null
  error,               \* "" is null
  rateLimitReset,      \* 0 is null
  usingCachedData, cacheAvailable, showRateLimitDialog,
  appCache,            \* localStorage['coffee_code_cache']: <<>> or <<raw>>
  loads,               \* the loadData calls in flight, a bag
  stage                \* useState of PeriodicRefresh while it is mounted

appVars == <<loading, user, repos, pinnedRepos, followers, error, rateLimitReset,
             usingCachedData, cacheAvailable, showRateLimitDialog, appCache, loads, stage>>

VARIABLES
  \* ---- calls and components that stand on their own
  readme,              \* a fetchReadme call: its candidates, requests and result
  modal,               \* RepoStatsModal (part_002): its useState and its effect
  analysis,            \* RepoCard: the repo it renders and analyzeRepo(repo)
  timeLeftStr,         \* useState of the App: the text of the countdown
  pager,               \* FollowersList: its followers prop and currentPage
  card,                \* RepoCard: its useState and its README fetches
  grid                 \* RepoGrid: its props and its useState

viewVars == <<analysis, timeLeftStr, pager, card, grid>>
cmpVars == <<readme, modal, viewVars>>

vars    == <<now, svcVars, appVars, cmpVars>>

\* ------------------------------------------------------------------- time
\* The instants the clock takes: 0, one TTL later, and the milliseconds after
\* that, so that an entry can be read at an age below, at and above the TTL.
Times == {0} \cup {CACHE_TTL + j : j \in 0..MaxSlack}

\* ------------------------------------------------------------------ values
\* A repository as far as the data layer looks at it.  description is
\* "text", "null" or "undefined" (a property the mapping left undefined).
Repo(n, s, d) == [name |-> n, stars |-> s, description |-> d]

MkRepos(starsSeq) == [i \in 1..Len(starsSeq) |-> Repo(i, starsSeq[i], "text")]

RECURSIVE SeqsUpTo(_, _)
SeqsUpTo(S, n) ==
  IF n = 0 THEN {<<>>}
  ELSE LET shorter == SeqsUpTo(S, n - 1)
       IN  shorter \cup {Append(q, x) : q \in {p \in shorter : Len(p) = n - 1}, x \in S}

\* every repo list of at most MaxRepos entries with stars in 0..MaxStars
AllRepoLists == {MkRepos(q) : q \in SeqsUpTo(0..MaxStars, MaxRepos)}

\* the repo lists the server answers with in the full state machine
RepoLists == {MkRepos(<<1, 2>>)}

UserVals     == 1..MaxVal
FollowerVals == {<<1>>}

\* what the GraphQL pinnedItems query can answer with (after the mapping)
PinnedNodeLists == {<<>>, <<Repo(2, 2, "null")>>}

\* ------------------------------------------------------------------- JSON
\* JSON.stringify leaves out every property whose value is undefined; the
\* text is kept as the property map it denotes.  Garbage is any text that
\* JSON.parse rejects.
DropUndefined(r) ==
  [k \in {j \in DOMAIN r : ~(j = "description" /\ r[j] = "undefined")} |-> r[k]]

StringifyList(l) == [i \in 1..Len(l) |-> DropUndefined(l[i])]

JSONstringify(obj) ==
  [text |-> "json",
   body |-> [k \in DOMAIN obj |->
               IF k \in {"repos", "pinnedRepos"} THEN StringifyList(obj[k]) ELSE obj[k]]]

Garbage == [text |-> "garbage"]

ParseThrows(raw) == raw.text # "json"
JSONparse(raw)   == raw.body

\* { ...data, timestamp: t }
WithTimestamp(data, t) ==
  [k \in DOMAIN data \cup {"timestamp"} |-> IF k = "timestamp" THEN t ELSE data[k]]

\* ------------------------------------------------------------ the cache slot
\* getCache with the freshness test the wrong way round
getCache_inverted(st, t) ==
  IF st = <<>> THEN <<>>
  ELSE IF ParseThrows(st[1]) THEN <<>>
  ELSE IF t - JSONparse(st[1]).timestamp < CACHE_TTL THEN <<>>
  ELSE <<JSONparse(st[1])>>

\* getCache expiring the entry already at age = TTL
getCache_strict(st, t) ==
  IF st = <<>> THEN <<>>
  ELSE IF ParseThrows(st[1]) THEN <<>>
  ELSE IF t - JSONparse(st[1]).timestamp >= CACHE_TTL THEN <<>>
  ELSE <<JSONparse(st[1])>>

\* getCache: <<>> is null.  v2 also removes an expired entry from the slot.
getCache(st, t) ==
  IF st = <<>> THEN <<>>
  ELSE IF ParseThrows(st[1]) THEN <<>>
  ELSE IF t - JSONparse(st[1]).timestamp > CACHE_TTL THEN <<>>
  ELSE <<JSONparse(st[1])>>

getCacheStorage(v, st, t) ==
  IF st = <<>> \/ v # "v2" THEN st
  ELSE IF ParseThrows(st[1]) THEN st
  ELSE IF t - JSONparse(st[1]).timestamp > CACHE_TTL THEN <<>>
  ELSE st

\* setCache: quota is TRUE when localStorage.setItem throws; the throw is
\* caught and the slot keeps what it held.
setCache(st, data, t, quota) ==
  IF quota THEN st ELSE <<JSONstringify(WithTimestamp(data, t))>>

\* --------------------------------------------------------- response handling
\* A settled sub-fetch: st is "ok" (fulfilled with v[1]), "null" (fulfilled
\* with null), "caught" (failure swallowed, fulfilled with v[1]), "rl"
\* (rejected with RateLimitError(reset)), "err" (rejected with Error) or
\* "net" (fetch itself rejected).
Pending  == [st |-> "pending",  v |-> <<>>, reset |-> 0]
Pending2 == [st |-> "pending2", v |-> <<>>, reset |-> 0]

\* parseInt of a text that does not start with a number
NaN == -1

\* a truthy number: neither 0 nor NaN
Truthy(x) == x # 0 /\ x # NaN

\* The x-ratelimit-reset header as parseInt reads it: <<>> when the header is
\* absent, <<n>> for epoch seconds n, <<NaN>> for a malformed value.
ResetHeaders == {<<>>, <<3 * RESET_FALLBACK_SECS>>, <<NaN>>}

\* the reset time whatever the header says
resetTimeOf_ignoresHeader(hdr, t) == (t \div 1000) + RESET_FALLBACK_SECS

\* resetHeader ? parseInt(resetHeader, 10) : Math.floor(Date.now() / 1000) + 3600
resetTimeOf(hdr, t) == IF hdr # <<>> THEN hdr[1] ELSE (t \div 1000) + RESET_FALLBACK_SECS

\* handleResponse; status is "ok", "ratelimit" (403 or 429) or "http"
handleResponse(v, status, hdr, body, t) ==
  IF status # "ok"
  THEN IF status = "ratelimit"
       THEN [st |-> "rl", v |-> <<>>, reset |-> resetTimeOf(hdr, t)]
       ELSE IF v = "v4" THEN [st |-> "null", v |-> <<>>, reset |-> 0]
                        ELSE [st |-> "err",  v |-> <<>>, reset |-> 0]
  ELSE [st |-> "ok", v |-> <<body>>, reset |-> 0]

NetworkFailure == [st |-> "net", v |-> <<>>, reset |-> 0]

\* fetchPinnedReposGraphQL: every failure inside the try block, the
\* RateLimitError of handleResponse included, is caught and becomes [].
\* cause keeps what was swallowed.
fetchPinnedReposGraphQL(r) ==
  IF r.st = "ok" THEN r ELSE [st |-> "caught", v |-> <<<<>>>>, reset |-> 0, cause |-> r.st]

Fulfilled(r) == r.st \in {"ok", "null", "caught"}
Rejected(r)  == r.st \in {"rl", "err", "net"}
InFlight(r)  == r.st \in {"pending", "pending2"}

FetchNames == {"profile", "repos", "followers", "pinned"}

\* ------------------------------------------------------------- aggregation
Min(a, b) == IF a < b THEN a ELSE b

\* Array.prototype.sort with (a, b) => b.stars - a.stars: a stable sort,
\* here as insertion behind every entry with at least as many stars.
RECURSIVE InsertByStars(_, _)
InsertByStars(sorted, r) ==
  IF sorted = <<>> THEN <<r>>
  ELSE IF Head(sorted).stars >= r.stars
       THEN <<Head(sorted)>> \o InsertByStars(Tail(sorted), r)
       ELSE <<r>> \o sorted

RECURSIVE SortByStarsDesc(_)
SortByStarsDesc(l) ==
  IF l = <<>> THEN <<>>
  ELSE InsertByStars(SortByStarsDesc(SubSeq(l, 1, Len(l) - 1)), l[Len(l)])

\* slice(0, n)
Slice(l, n) == SubSeq(l, 1, Min(n, Len(l)))

\* finalPinned without the sort
finalPinned_unsorted(pinned, rs) ==
  IF Len(pinned) > 0 THEN pinned ELSE Slice(rs, PINNED_LIMIT)

\* finalPinned: the GraphQL pins, or the top-starred repos when there are none
finalPinned(pinned, rs) ==
  IF Len(pinned) > 0 THEN pinned ELSE Slice(SortByStarsDesc(rs), PINNED_LIMIT)

RECURSIVE SumStars(_)
SumStars(l) == IF l = <<>> THEN 0 ELSE Head(l).stars + SumStars(Tail(l))

\* r.forks_count || 0
ForksOf(r) == IF "forks" \in DOMAIN r THEN r.forks ELSE 0

RECURSIVE SumForks(_)
SumForks(l) == IF l = <<>> THEN 0 ELSE ForksOf(Head(l)) + SumForks(Tail(l))

\* r.language when it is truthy: <<name>>, else <<>>
LanguageOf(r) == IF "language" \in DOMAIN r THEN r.language ELSE <<>>

\* langs[lang] = (langs[lang] || 0) + 1 on Object.entries(langs), which
\* lists the keys in the order of their first assignment
CountLanguage(entries, lang) ==
  IF \E i \in 1..Len(entries) : entries[i].lang = lang
  THEN [i \in 1..Len(entries) |->
          IF entries[i].lang = lang
          THEN [entries[i] EXCEPT !.count = @ + 1] ELSE entries[i]]
  ELSE Append(entries, [lang |-> lang, count |-> 1])

\* the forEach over repos, from the first repo on
RECURSIVE LanguageEntries(_)
LanguageEntries(rs) ==
  IF rs = <<>> THEN <<>>
  ELSE LET before == LanguageEntries(SubSeq(rs, 1, Len(rs) - 1))
           lang   == LanguageOf(rs[Len(rs)])
       IN  IF lang = <<>> THEN before ELSE CountLanguage(before, lang[1])

\* a sort that puts an entry before the entries of the same count
RECURSIVE InsertByCount_beforeEqual(_, _)
InsertByCount_beforeEqual(sorted, e) ==
  IF sorted = <<>> THEN <<e>>
  ELSE IF Head(sorted).count > e.count
       THEN <<Head(sorted)>> \o InsertByCount_beforeEqual(Tail(sorted), e)
       ELSE <<e>> \o sorted

\* Array.prototype.sort with (a, b) => b[1] - a[1]: stable, here as
\* insertion behind every entry with at least the same count
RECURSIVE InsertByCount(_, _)
InsertByCount(sorted, e) ==
  IF sorted = <<>> THEN <<e>>
  ELSE IF Head(sorted).count >= e.count
       THEN <<Head(sorted)>> \o InsertByCount(Tail(sorted), e)
       ELSE <<e>> \o sorted

RECURSIVE SortByCountDesc(_)
SortByCountDesc(l) ==
  IF l = <<>> THEN <<>>
  ELSE InsertByCount(SortByCountDesc(SubSeq(l, 1, Len(l) - 1)), l[Len(l)])

TOP_LANGUAGES == 5

\* calculateStats, as far as the repo model carries the inputs; a missing
\* mostStarredRepo, <<>>, is the text 'N/A'
calculateStats(u, rs) ==
  LET totalStars == SumStars(rs)
  IN  [totalStars      |-> totalStars,
       totalForks      |-> SumForks(rs),
       topLanguages    |-> Slice(SortByCountDesc(LanguageEntries(rs)), TOP_LANGUAGES),
       mostStarredRepo |-> IF Len(rs) > 0 THEN <<SortByStarsDesc(rs)[1].name>> ELSE <<>>,
       brewStrength    |-> IF totalStars > 500 THEN "Double Espresso"
                           ELSE IF totalStars > 100 THEN "Ristretto" ELSE "Mild Roast"]

Names(l) == {l[i].name : i \in 1..Len(l)}

\* what the tags endpoint answers with when it answers 200: no tag, a tag,
\* a tag whose name is empty
TagBodies == {<<>>, <<[name |-> "tag"]>>, <<[name |-> ""]>>}

\* every way the request of one tag lookup can settle after handleResponse
TagOutcomes ==
  {handleResponse("v4", "ok", <<>>, b, now) : b \in TagBodies}
    \cup {handleResponse("v4", "ratelimit", h, <<>>, now) : h \in ResetHeaders}
    \cup {handleResponse("v4", "http", <<>>, <<>>, now), NetworkFailure}

\* fetchTags with a catch that lets the RateLimitError out
fetchTags_rateLimitEscapes(r) ==
  IF r.st = "rl" THEN r
  ELSE [st |-> "ok", reset |-> 0,
        v  |-> IF r.st = "ok" /\ Len(r.v[1]) > 0 /\ r.v[1][1].name # ""
               THEN <<r.v[1][1].name>> ELSE <<>>]

\* fetchTags: whatever fetch or handleResponse threw is caught; the promise
\* is fulfilled with tags?.[0]?.name || null, <<>> standing for null
fetchTags(r) ==
  [st |-> "ok", reset |-> 0,
   v  |-> IF r.st = "ok" /\ Len(r.v[1]) > 0 /\ r.v[1][1].name # ""
          THEN <<r.v[1][1].name>> ELSE <<>>]

\* The outcomes of the tag lookups of one pass that the model distinguishes:
\* all lookups settle alike, or one finds a tag while the others are rate
\* limited.
TagLookups(names) ==
  {[n \in names |-> r] : r \in TagOutcomes}
    \cup {[n \in names |-> IF n = m THEN handleResponse("v4", "ok", <<>>, <<[name |-> "tag"]>>, now)
                          ELSE handleResponse("v4", "ratelimit", <<>>, <<>>, now)] : m \in names}

\* --------------------------------------------------------------- outcomes
NoRet == [kind |-> "none", via |-> "", val |-> <<>>, err |-> "", reset |-> 0]

Returned(via, obj) == [kind |-> "value", via |-> via, val |-> <<obj>>, err |-> "", reset |-> 0]

Thrown(err, reset) == [kind |-> "error", via |-> "", val |-> <<>>, err |-> err, reset |-> reset]

\* the error a rejected sub-fetch rejects with
ErrorOf(r) ==
  IF r.st = "rl" THEN Thrown("RateLimitError", r.reset)
  ELSE IF r.st = "err" THEN Thrown("Error", 0)
  ELSE Thrown("TypeError", 0)

AllPending == [k \in FetchNames |-> Pending]
NoFetches  == [k \in FetchNames |-> [st |-> "idle", v |-> <<>>, reset |-> 0]]

\* the CI-generated /github_data.json the v2 service tries first
StaticSnapshots ==
  {[user |-> 1, repos |-> MkRepos(<<1, 2>>), pinnedRepos |-> MkRepos(<<2>>),
    followers |-> <<1>>, timestamp |-> 0]}

\* what the gh-pinned-repos proxy answers with after the mapping of the v2
\* fetchPinnedRepos: description is whatever pin.description was
ProxyPinLists == {<<Repo(1, 2, "undefined")>>, <<Repo(1, 2, "text")>>}

Bodies(k) ==
  IF k = "profile" THEN UserVals
  ELSE IF k = "followers" THEN FollowerVals
  ELSE IF k = "repos" THEN RepoLists
  ELSE IF variant = "v4" THEN PinnedNodeLists
  ELSE {Slice(l, PINNED_LIMIT) : l \in RepoLists}

\* every way a request for k can settle after handleResponse
Outcomes(k) ==
  {handleResponse(variant, "ok", <<>>, b, now) : b \in Bodies(k)}
    \cup {handleResponse(variant, "ratelimit", h, <<>>, now) : h \in ResetHeaders}
    \cup {handleResponse(variant, "http", <<>>, <<>>, now), NetworkFailure}

\* ============================================================ the service
\* no call has been made yet and the slot holds st
SvcIdleWith(v, st) ==
  /\ variant = v
  /\ storage = st
  /\ pc = "idle"
  /\ force = FALSE
  /\ res = NoFetches
  /\ agg = <<>>
  /\ ret = NoRet
  /\ requests = {}
  /\ storage0 = <<>>
  /\ written = <<>>

SvcIdle(v) == SvcIdleWith(v, <<>>)

InitSvc == \E v \in {"v2", "v4"} : SvcIdle(v)

\* getPortfolioData up to its first await
getPortfolioData(f) ==
  /\ pc \in {"idle", "done"}
  /\ force' = f
  /\ storage0' = storage
  /\ agg' = <<>>
  /\ LET cached == IF f THEN <<>> ELSE getCache(storage, now)
     IN  /\ storage' = IF f THEN storage ELSE getCacheStorage(variant, storage, now)
         /\ IF cached # <<>>
            THEN /\ pc' = "done"
                 /\ ret' = Returned("cache", cached[1])
                 /\ requests' = {}
                 /\ res' = NoFetches
            ELSE IF variant = "v2"
            THEN /\ pc' = "static"
                 /\ ret' = NoRet
                 /\ requests' = {"static"}
                 /\ res' = NoFetches
            ELSE /\ pc' = "fetching"
                 /\ ret' = NoRet
                 /\ requests' = FetchNames
                 /\ res' = AllPending
  /\ UNCHANGED <<appVars, cmpVars, now, variant, written>>

\* v2: the static snapshot answered 200; it is cached and returned as it is
StaticSnapshotOk ==
  /\ pc = "static"
  /\ \E d \in StaticSnapshots, quota \in BOOLEAN :
       /\ storage' = setCache(storage, d, now, quota)
       /\ written' = IF quota THEN written ELSE <<d>>
       /\ ret' = Returned("static", d)
  /\ pc' = "done"
  /\ UNCHANGED <<appVars, cmpVars, now, variant, force, res, agg, requests, storage0>>

\* v2: the static snapshot is missing (non-200 or fetch threw): go to the API
StaticSnapshotMissing ==
  /\ pc = "static"
  /\ pc' = "fetching"
  /\ res' = AllPending
  /\ requests' = requests \cup {"profile", "repos", "followers", "pinnedProxy"}
  /\ UNCHANGED <<appVars, cmpVars, now, variant, force, agg, ret, storage, storage0, written>>

\* v4, after the tag lookups: tags, stats, setCache, return
Finish4(a, tags, quota) ==
  LET data == [user |-> a.user, repos |-> a.repos, pinnedRepos |-> a.pinnedRepos,
               followers |-> a.followers,
               tags |-> tags,
               stats |-> calculateStats(a.user, a.repos)]
  IN  /\ storage' = setCache(storage, data, now, quota)
      /\ written' = IF quota THEN written ELSE <<data>>
      /\ ret' = Returned("network", WithTimestamp(data, now))
      /\ pc' = "done"
      /\ agg' = <<>>

\* v2: localStorage.getItem(CONFIG.CACHE_KEY) and JSON.parse, whatever the age
readStale(st) == IF st = <<>> THEN <<>> ELSE <<JSONparse(st[1])>>

\* Promise.all rejected: v4 lets the error out, v2 runs its catch block
PassRejected(r) ==
  /\ pc' = "done"
  /\ ret' = IF variant = "v2" /\ r.st = "rl" /\ storage # <<>>
            THEN IF ParseThrows(storage[1]) THEN Thrown("SyntaxError", 0)
                 ELSE Returned("stale", readStale(storage)[1])
            ELSE ErrorOf(r)
  /\ UNCHANGED <<agg, storage, requests, written>>

\* the check for a missing user left out
userMissing_never(res1) == FALSE

\* if (!userData) throw new Error("Could not fetch GitHub user. ...")
userMissing(res1) == res1["profile"].st = "null"

\* x || []  for a sub-fetch that may have been fulfilled with null
OrEmpty(r) == IF r.v = <<>> THEN <<>> ELSE r.v[1]

\* the user object, 0 standing for null
UserOf(r) == IF r.v = <<>> THEN 0 ELSE r.v[1]

\* Promise.all fulfilled: the rest of getPortfolioData
PassJoined(res1) ==
  IF variant = "v2"
  THEN LET data == [user |-> res1["profile"].v[1], repos |-> res1["repos"].v[1],
                    pinnedRepos |-> res1["pinned"].v[1], followers |-> res1["followers"].v[1]]
       IN  /\ \E quota \in BOOLEAN :
                /\ storage' = setCache(storage, data, now, quota)
                /\ written' = IF quota THEN written ELSE <<data>>
           /\ ret' = Returned("network", WithTimestamp(data, now))
           /\ pc' = "done"
           /\ UNCHANGED <<agg, requests>>
  ELSE IF userMissing(res1)
  THEN /\ pc' = "done"
       /\ ret' = Thrown("Error", 0)
       /\ UNCHANGED <<agg, storage, requests, written>>
  ELSE LET reposL     == OrEmpty(res1["repos"])
           followersL == OrEmpty(res1["followers"])
           pinned     == finalPinned(res1["pinned"].v[1], reposL)
           a == [user |-> UserOf(res1["profile"]), repos |-> reposL, pinnedRepos |-> pinned,
                 followers |-> followersL,
                 toTag |-> pinned \o Slice(reposL, TAG_GENERAL_LIMIT)]
       IN  IF a.toTag = <<>>
           THEN /\ \E quota \in BOOLEAN : Finish4(a, <<>>, quota)
                /\ UNCHANGED requests
           ELSE /\ pc' = "tagging"
                /\ agg' = <<a>>
                /\ requests' = requests \cup {"tags"}
                /\ UNCHANGED <<ret, storage, written>>

\* one sub-fetch settles with r.  After the pass has ended nobody looks at
\* the outcome any more: it is kept as "ignored", whatever it was.
Ignored == [st |-> "ignored", v |-> <<>>, reset |-> 0]

Settle(k, r) ==
  LET res1 == [res EXCEPT ![k] = IF pc = "fetching" THEN r ELSE Ignored]
  IN  /\ res' = res1
      /\ IF pc # "fetching" THEN UNCHANGED <<pc, ret, agg, storage, requests, written>>
         ELSE IF Rejected(r) THEN PassRejected(r)
         ELSE IF \A j \in FetchNames : Fulfilled(res1[j]) THEN PassJoined(res1)
         ELSE UNCHANGED <<pc, ret, agg, storage, requests, written>>
      /\ UNCHANGED <<appVars, cmpVars, now, variant, force, storage0>>

\* the profile, repo-list or follower request settles
FetchSettles(k) ==
  /\ k \in {"profile", "repos", "followers"}
  /\ res[k].st = "pending"
  /\ \E r \in Outcomes(k) : Settle(k, r)

\* v4: the GraphQL request of fetchPinnedReposGraphQL settles
PinnedGraphQLSettles ==
  /\ variant = "v4"
  /\ res["pinned"].st = "pending"
  /\ \E r \in Outcomes("pinned") : Settle("pinned", fetchPinnedReposGraphQL(r))

\* v2 fetchPinnedRepos: the proxy answered with a non-empty array
PinnedProxyOk ==
  /\ variant = "v2"
  /\ res["pinned"].st = "pending"
  /\ \E l \in ProxyPinLists : Settle("pinned", [st |-> "ok", v |-> <<l>>, reset |-> 0])

\* v2 fetchPinnedRepos: the proxy failed or answered nothing usable; the
\* fallback request to the API goes out
PinnedProxyFails ==
  /\ variant = "v2"
  /\ res["pinned"].st = "pending"
  /\ res' = [res EXCEPT !["pinned"] = Pending2]
  /\ requests' = requests \cup {"pinnedApi"}
  /\ UNCHANGED <<appVars, cmpVars, now, variant, force, storage0, pc, ret, agg, storage, written>>

\* v2 fetchPinnedRepos: the fallback request settles
PinnedApiSettles ==
  /\ variant = "v2"
  /\ res["pinned"].st = "pending2"
  /\ \E r \in Outcomes("pinned") : Settle("pinned", r)

\* v4: the requests of the tag lookups have settled with resp (by repo
\* name).  Promise.all over the fetchTags promises, Object.fromEntries over
\* the entries with a tag, and the rest of getPortfolioData; a rejected
\* fetchTags promise would reject Promise.all and the call with it.
TagsSettleWith(resp, quota) ==
  LET entries  == [n \in DOMAIN resp |-> fetchTags(resp[n])]
      rejected == {n \in DOMAIN resp : Rejected(entries[n])}
      tagged   == {n \in DOMAIN resp : entries[n].v # <<>>}
  IN  IF rejected # {}
      THEN /\ pc' = "done"
           /\ ret' = ErrorOf(entries[CHOOSE n \in rejected : TRUE])
           /\ agg' = <<>>
           /\ UNCHANGED <<storage, written>>
      ELSE Finish4(agg[1], [n \in tagged |-> entries[n].v[1]], quota)

TagsSettle ==
  /\ pc = "tagging"
  /\ \E resp \in TagLookups(Names(agg[1].toTag)), quota \in BOOLEAN : TagsSettleWith(resp, quota)
  /\ UNCHANGED <<appVars, cmpVars, now, variant, force, res, requests, storage0>>

\* the clock
Advance ==
  /\ \E t \in Times : t > now /\ now' = t
  /\ UNCHANGED <<svcVars, appVars, cmpVars>>

\* no stand-alone call is out
ModalClosed(orphan) ==
  [open |-> FALSE, data |-> <<>>, loading |-> TRUE, retryCount |-> 0,
   fetch |-> "none", timer |-> FALSE, requested |-> 0, orphan |-> orphan]

\* no RepoCard is mounted; orphans of its README fetches are still out, and
\* late tells whether one of them has called a setter since the unmount
CardUnmounted(orphans, late) ==
  [mounted |-> FALSE, expanded |-> FALSE, readme |-> <<>>, readmeBranch |-> "main",
   loadingReadme |-> FALSE, inFlight |-> 0, orphans |-> orphans, late |-> late]

\* no RepoGrid is mounted
GridUnmounted ==
  [mounted |-> FALSE, repos |-> <<>>, pinnedRepos |-> <<>>, searchTerm |-> "",
   languageFilter |-> "All", isFilterOpen |-> FALSE]

CmpIdle ==
  /\ readme = [pc |-> "idle"]
  /\ modal = ModalClosed(FALSE)
  /\ analysis = <<>>
  /\ timeLeftStr = "--:--:--"
  /\ pager = [followers |-> <<>>, currentPage |-> 1]
  /\ card = CardUnmounted(0, FALSE)
  /\ grid = GridUnmounted

\* the App is not mounted
AppIdle ==
  /\ loading = TRUE /\ user = 0 /\ repos = <<>> /\ pinnedRepos = <<>> /\ followers = <<>>
  /\ error = "" /\ rateLimitReset = 0
  /\ usingCachedData = FALSE /\ cacheAvailable = FALSE /\ showRateLimitDialog = FALSE
  /\ appCache = <<>> /\ loads = EmptyBag /\ stage = "idle"

Init == now = 0 /\ InitSvc /\ AppIdle /\ CmpIdle

Next ==
  \/ \E f \in BOOLEAN : getPortfolioData(f)
  \/ StaticSnapshotOk
  \/ StaticSnapshotMissing
  \/ \E k \in FetchNames : FetchSettles(k)
  \/ PinnedGraphQLSettles
  \/ PinnedProxyOk
  \/ PinnedProxyFails
  \/ PinnedApiSettles
  \/ TagsSettle
  \/ Advance

Spec == Init /\ [][Next]_vars

\* ------------------------------------------------ analyzeRepo (RepoCard)
\* The two copies of the full classifier: githubService.ts ("v2") and
\* part_005 ("app"); they differ in the wording of the templates only.
AnalyzeImpls == {"v2", "app"}

MaxStargazers == 34
MaxForks == 3
MaxId == 4
LONG_DESCRIPTION == 50

\* a description is null (<<>>) or a text, of which only the length is read;
\* topics are undefined (<<>>) or a list
Descriptions == {<<>>, <<[length |-> 0]>>, <<[length |-> LONG_DESCRIPTION]>>,
                 <<[length |-> LONG_DESCRIPTION + 1]>>}
TopicLists   == {<<>>, << <<>> >>, << <<"cli">> >>}
Languages    == {<<>>, <<"Go">>}

CardRepos ==
  [id : 1..MaxId, language : Languages,
   stargazers_count : 0..MaxStargazers, forks_count : 0..MaxForks,
   description : Descriptions, topics : TopicLists]

\* the five pools of three templates; ${lang} is filled in by Template
descriptions(impl) ==
  IF impl = "v2"
  THEN << <<"A delicate ${lang} brew with subtle notes.",
            "Light and airy ${lang} project.",
            "Freshly ground ${lang} concepts.">>,
          <<"A balanced ${lang} blend.",
            "Medium-bodied ${lang} architecture.",
            "Classic ${lang} flavor profile.">>,
          <<"Bold ${lang} flavors.",
            "Deep-roasted ${lang} logic.",
            "A robust ${lang} creation.">>,
          <<"Intense ${lang} energy.",
            "Concentrated ${lang} power.",
            "High-caffeine ${lang} solution.">>,
          <<"The Master's Reserve: Premium ${lang}.",
            "Award-winning ${lang} profile.",
            "The ultimate ${lang} experience.">> >>
  ELSE << <<"A delicate ${lang} brew with subtle notes.",
            "Light and airy ${lang} project, perfect for a morning start.",
            "Freshly ground ${lang} concepts, steeping gently.">>,
          <<"A balanced ${lang} blend with a smooth body.",
            "Medium-bodied ${lang} architecture with a pleasant finish.",
            "Classic ${lang} flavor profile, reliable and tasty.">>,
          <<"Bold ${lang} flavors with a rich, full body.",
            "Deep-roasted ${lang} logic for the refined palate.",
            "A robust ${lang} creation with lingering complexity.">>,
          <<"Intense ${lang} energy packed into every byte.",
            "Concentrated ${lang} power, not for the faint of heart.",
            "A high-caffeine ${lang} solution for heavy workloads.">>,
          <<"The Master's Reserve: Premium ${lang} beans, perfectly extracted.",
            "Award-winning ${lang} profile with complex undertones.",
            "The ultimate ${lang} experience. Pure liquid gold.">> >>

Template(text, lang) == [text |-> text, lang |-> lang]

\* let score = stars * 3 + forks * 2, and the two bonuses
scoreOf(repo) ==
  3 * repo.stargazers_count + 2 * repo.forks_count
    + (IF repo.description # <<>> /\ repo.description[1].length > LONG_DESCRIPTION
       THEN 5 ELSE 0)
    + (IF repo.topics # <<>> /\ Len(repo.topics[1]) > 0 THEN 5 ELSE 0)

descTemplateOf_lateMedium(score) ==
  IF score <= 5 THEN 0
  ELSE IF score < 20 THEN 1
  ELSE IF score < 50 THEN 2
  ELSE IF score < 100 THEN 3
  ELSE 4

\* the if / else-if chain over the score
descTemplateOf(score) ==
  IF score < 5 THEN 0
  ELSE IF score >= 5 /\ score < 20 THEN 1
  ELSE IF score >= 20 /\ score < 50 THEN 2
  ELSE IF score >= 50 /\ score < 100 THEN 3
  ELSE 4

Roasts == <<"Light Roast", "Medium Roast", "Dark Roast", "Espresso Blend",
            "Double Shot Signature">>

analyzeRepo(impl, repo) ==
  LET lang         == IF repo.language # <<>> THEN repo.language[1] ELSE "Unknown"
      descTemplate == descTemplateOf(scoreOf(repo))
      tierDescs    == descriptions(impl)[descTemplate + 1]
  IN  [roast |-> Roasts[descTemplate + 1],
       description |-> Template(tierDescs[(repo.id % Len(tierDescs)) + 1], lang)]

\* a RepoCard is mounted and renders: const analysis = analyzeRepo(repo)
RenderCard(impl, repo) ==
  /\ analysis = <<>>
  /\ analysis' = <<[impl |-> impl, repo |-> repo, result |-> analyzeRepo(impl, repo)]>>
  /\ UNCHANGED <<now, svcVars, appVars, readme, modal, timeLeftStr, pager, card, grid>>

InitAnalyze == now = 0 /\ SvcIdle("v2") /\ AppIdle /\ CmpIdle

NextAnalyze == \E impl \in AnalyzeImpls, repo \in CardRepos : RenderCard(impl, repo)

SpecAnalyze == InitAnalyze /\ [][NextAnalyze]_vars

\* ------------------------------------------------ the countdown (App)
MaxTargetSecs == 3661
MaxSeconds == 2
HUNDRED_HOURS == 100 * 60 * 60

\* reset targets in epoch seconds, and the phases of the clock against them
CountdownTargets == (1..MaxTargetSecs) \cup {HUNDRED_HOURS}
StartOffsets     == {0, 1, 999}

pad2_unpadded(n) == ToString(n)

\* n.toString().padStart(2, '0') of a number that is not negative
pad2(n) == IF n < 10 THEN "0" \o ToString(n) ELSE ToString(n)

\* updateTimer: the text it hands to setTimeLeftStr
updateTimer(reset, t) ==
  LET resetTimeMs == reset * 1000
      diff        == resetTimeMs - t
      h           == diff \div (1000 * 60 * 60)
      m           == (diff % (1000 * 60 * 60)) \div (1000 * 60)
      sec         == (diff % (1000 * 60)) \div 1000
  IN  IF diff <= 0
      THEN "Ready to brew!"
      ELSE pad2(h) \o ":" \o pad2(m) \o ":" \o pad2(sec)

\* the interval of the countdown effect is armed: `if (!rateLimitReset) return`
CountdownRunning == Truthy(rateLimitReset)

\* updateTimer runs: the first call of the effect or a tick of its interval
CountdownTick ==
  /\ CountdownRunning
  /\ timeLeftStr' = updateTimer(rateLimitReset, now)
  /\ UNCHANGED <<now, svcVars, appVars, readme, modal, analysis, pager, card, grid>>

\* a second goes by
SecondPasses ==
  /\ now < MaxSeconds * 1000
  /\ now' = now + 1000
  /\ UNCHANGED <<svcVars, appVars, cmpVars>>

\* the App on its error screen after the initial load was rejected with a
\* rate limit whose reset time is reset
RateLimitedApp(reset) ==
  /\ loading = FALSE /\ user = 0 /\ repos = <<>> /\ pinnedRepos = <<>> /\ followers = <<>>
  /\ error = "Out of Coffee Beans" /\ rateLimitReset = reset
  /\ usingCachedData = FALSE /\ cacheAvailable = FALSE /\ showRateLimitDialog = FALSE
  /\ appCache = <<>> /\ loads = EmptyBag /\ stage = "idle"

InitCountdown ==
  /\ now \in StartOffsets
  /\ SvcIdle("v2")
  /\ \E reset \in CountdownTargets : RateLimitedApp(reset)
  /\ CmpIdle

NextCountdown == CountdownTick \/ SecondPasses

SpecCountdown == InitCountdown /\ [][NextCountdown]_vars

\* ------------------------------------------------ FollowersList
FOLLOWERS_PER_PAGE == 12
MaxFollowers == 25
MaxPage == 5

\* the followers prop: n followers, named by their place in the list
FollowerLists == {[i \in 1..n |-> i] : n \in 0..MaxFollowers}

\* Array.prototype.slice(a, b) with 0 <= a <= b
slice(list, a, b) ==
  LET lo == IF a < Len(list) THEN a ELSE Len(list)
      hi == IF b < Len(list) THEN b ELSE Len(list)
  IN  SubSeq(list, lo + 1, hi)

totalPages_floor(list) == Len(list) \div FOLLOWERS_PER_PAGE

\* Math.ceil(sortedFollowers.length / FOLLOWERS_PER_PAGE)
totalPages(list) ==
  IF Len(list) % FOLLOWERS_PER_PAGE = 0
  THEN Len(list) \div FOLLOWERS_PER_PAGE
  ELSE Len(list) \div FOLLOWERS_PER_PAGE + 1

currentFollowers(list, currentPage) ==
  slice(list, (currentPage - 1) * FOLLOWERS_PER_PAGE, currentPage * FOLLOWERS_PER_PAGE)

\* the page controls are rendered
ControlsShown == Len(pager.followers) > 0 /\ totalPages(pager.followers) > 1

PrevDisabled == pager.currentPage = 1
NextDisabled == pager.currentPage = totalPages(pager.followers)

\* the previous-page button
PrevPage ==
  /\ ControlsShown
  /\ ~PrevDisabled
  /\ pager' = [pager EXCEPT !.currentPage = @ - 1]
  /\ UNCHANGED <<now, svcVars, appVars, readme, modal, analysis, timeLeftStr, card, grid>>

\* the next-page button
NextPage ==
  /\ ControlsShown
  /\ ~NextDisabled
  /\ pager.currentPage < MaxPage
  /\ pager' = [pager EXCEPT !.currentPage = @ + 1]
  /\ UNCHANGED <<now, svcVars, appVars, readme, modal, analysis, timeLeftStr, card, grid>>

\* the App renders the list with another followers array; useState keeps
\* currentPage
ReplaceFollowers(list) ==
  /\ pager' = [pager EXCEPT !.followers = list]
  /\ UNCHANGED <<now, svcVars, appVars, readme, modal, analysis, timeLeftStr, card, grid>>

InitFollowers == now = 0 /\ SvcIdle("v2") /\ AppIdle /\ CmpIdle

NextFollowers ==
  \/ PrevPage
  \/ NextPage
  \/ \E list \in FollowerLists : ReplaceFollowers(list)

SpecFollowers == InitFollowers /\ [][NextFollowers]_vars

\* ================================================================ RepoGrid
MaxGridRepos == 2

\* the texts of names, descriptions and search terms, and which of them
\* String.prototype.includes finds in which: the empty term in every text,
\* a text in itself, a letter in the text made of it
GridNames     == {"a", "b"}
GridTexts     == {"ab"}
SearchTerms   == {"", "a", "B", "ab"}
GridLanguages == {"Go"}

toLowerCase(t) == IF t = "A" THEN "a" ELSE IF t = "B" THEN "b" ELSE t

includes(text, term) ==
  term = "" \/ term = text \/ (text = "ab" /\ term \in {"a", "b"})

\* a repo as the grid reads it: description and language are null (<<>>) or
\* a text
GridRepos ==
  [name : GridNames,
   description : {<<>>} \cup {<<t>> : t \in GridTexts},
   language : {<<>>} \cup {<<l>> : l \in GridLanguages}]

DistinctNames(l) == \A i, j \in 1..Len(l) : i # j => l[i].name # l[j].name

\* the lists a source answers with: no name twice
GridLists == {l \in SeqsUpTo(GridRepos, MaxGridRepos) : DistinctNames(l)}

\* the languages memo: 'All' and the languages of both lists
languages(g) ==
  {"All"} \cup {g.repos[i].language[1] :
                  i \in {j \in 1..Len(g.repos) : g.repos[j].language # <<>>}}
          \cup {g.pinnedRepos[i].language[1] :
                  i \in {j \in 1..Len(g.pinnedRepos) : g.pinnedRepos[j].language # <<>>}}

filterRepo(g, repo) ==
  LET term          == toLowerCase(g.searchTerm)
      matchesSearch == \/ includes(toLowerCase(repo.name), term)
                       \/ /\ repo.description # <<>>
                          /\ includes(toLowerCase(repo.description[1]), term)
      matchesLang   == \/ g.languageFilter = "All"
                       \/ repo.language = <<g.languageFilter>>
  IN  matchesSearch /\ matchesLang

\* Array.prototype.filter is SelectSeq
filteredPinned(g) ==
  LET keep(r) == filterRepo(g, r)
  IN  SelectSeq(g.pinnedRepos, keep)

\* repos.filter(r => !pinnedRepos.some(p => p.name === r.name)).filter(filterRepo)
filteredOthers(g) ==
  LET notPinned(r) == ~(\E i \in 1..Len(g.pinnedRepos) : g.pinnedRepos[i].name = r.name)
      keep(r)      == filterRepo(g, r)
  IN  SelectSeq(SelectSeq(g.repos, notPinned), keep)

\* the App renders the grid with the lists of a load
MountGrid(rs, pinned) ==
  /\ ~grid.mounted
  /\ grid' = [GridUnmounted EXCEPT !.mounted = TRUE, !.repos = rs, !.pinnedRepos = pinned]
  /\ UNCHANGED <<now, svcVars, appVars, readme, modal, analysis, timeLeftStr, pager, card>>

\* the search box
SetSearchTerm(term) ==
  /\ grid.mounted
  /\ grid' = [grid EXCEPT !.searchTerm = term]
  /\ UNCHANGED <<now, svcVars, appVars, readme, modal, analysis, timeLeftStr, pager, card>>

\* the filter button
ToggleFilterMenu ==
  /\ grid.mounted
  /\ grid' = [grid EXCEPT !.isFilterOpen = ~@]
  /\ UNCHANGED <<now, svcVars, appVars, readme, modal, analysis, timeLeftStr, pager, card>>

\* an entry of the open menu
PickLanguage(lang) ==
  /\ grid.mounted
  /\ grid.isFilterOpen
  /\ lang \in languages(grid)
  /\ grid' = [grid EXCEPT !.languageFilter = lang, !.isFilterOpen = FALSE]
  /\ UNCHANGED <<now, svcVars, appVars, readme, modal, analysis, timeLeftStr, pager, card>>

\* 'Clear filters', rendered when both sections are empty
ClearFilters ==
  /\ grid.mounted
  /\ filteredPinned(grid) = <<>> /\ filteredOthers(grid) = <<>>
  /\ grid' = [grid EXCEPT !.searchTerm = "", !.languageFilter = "All"]
  /\ UNCHANGED <<now, svcVars, appVars, readme, modal, analysis, timeLeftStr, pager, card>>

InitGrid == now = 0 /\ SvcIdle("v2") /\ AppIdle /\ CmpIdle

NextGrid ==
  \/ \E rs \in GridLists, pinned \in GridLists : MountGrid(rs, pinned)
  \/ \E term \in SearchTerms : SetSearchTerm(term)
  \/ ToggleFilterMenu
  \/ \E lang \in {"All"} \cup GridLanguages : PickLanguage(lang)
  \/ ClearFilters

SpecGrid == InitGrid /\ [][NextGrid]_vars

\* ------------------------------------------------ an undecodable cache slot
\* The service finds in its slot a text that JSON.parse rejects (left by
\* another version of the page, or cut short); the clock stands still.
InitDecode ==
  /\ now = 0
  /\ \E v \in {"v2", "v4"} : SvcIdleWith(v, <<Garbage>>)
  /\ AppIdle
  /\ CmpIdle

NextDecode ==
  \/ \E f \in BOOLEAN : getPortfolioData(f)
  \/ StaticSnapshotOk
  \/ StaticSnapshotMissing
  \/ \E k \in FetchNames : FetchSettles(k)
  \/ PinnedGraphQLSettles
  \/ PinnedProxyOk
  \/ PinnedProxyFails
  \/ PinnedApiSettles
  \/ TagsSettle

SpecDecode == InitDecode /\ [][NextDecode]_vars

\* ------------------------------------------------ exhaustive aggregation runs
\* A v4 call whose profile, repo-list and follower requests have answered
\* 200, for every repo list within the bounds, with the GraphQL request
\* still out.
InitAgg ==
  /\ now = 0
  /\ variant = "v4"
  /\ storage = <<>>
  /\ pc = "fetching"
  /\ force = FALSE
  /\ \E l \in AllRepoLists :
       res = [k \in FetchNames |->
                IF k = "profile" THEN [st |-> "ok", v |-> <<1>>, reset |-> 0]
                ELSE IF k = "followers" THEN [st |-> "ok", v |-> <<<<1>>>>, reset |-> 0]
                ELSE IF k = "repos" THEN [st |-> "ok", v |-> <<l>>, reset |-> 0]
                ELSE Pending]
  /\ agg = <<>>
  /\ ret = NoRet
  /\ requests = FetchNames
  /\ storage0 = <<>>
  /\ written = <<>>
  /\ AppIdle
  /\ CmpIdle

NextAgg == PinnedGraphQLSettles \/ TagsSettle

SpecAgg == InitAgg /\ [][NextAgg]_vars

\* ------------------------------------------------------ calculateStats runs
MaxLangRepos == 6
MaxStarRepos == 3

\* the star and fork counts of a repo: the sums of up to MaxStarRepos of
\* them lie on both sides of 100 and of 500
StarsAndForks == {<<0, 0>>, <<1, 1>>, <<100, 0>>, <<400, 1>>}

\* a repo of the list endpoint with the fields calculateStats reads
StatRepo(n, s, f, lang) ==
  [name |-> n, stars |-> s, description |-> "text", forks |-> f, language |-> lang]

\* the highest language number of q
Largest(q) ==
  IF q = <<>> THEN 0
  ELSE CHOOSE m \in {q[i] : i \in 1..Len(q)} : \A i \in 1..Len(q) : q[i] <= m

\* the language columns of n repos: 0 is null, and the languages are numbered
\* in the order in which the list first shows them
RECURSIVE LanguageSeqs(_)
LanguageSeqs(n) ==
  IF n = 0 THEN {<<>>}
  ELSE {p \in {Append(q, x) : q \in LanguageSeqs(n - 1), x \in 0..n} :
          p[n] <= Largest(SubSeq(p, 1, n - 1)) + 1}

StatRepoLists ==
  {[i \in 1..Len(q) |-> StatRepo(i, 0, 0, IF q[i] = 0 THEN <<>> ELSE <<q[i]>>)] :
     q \in UNION {LanguageSeqs(n) : n \in 0..MaxLangRepos}}
  \cup {[i \in 1..Len(q) |-> StatRepo(i, q[i][1], q[i][2], <<>>)] :
          q \in SeqsUpTo(StarsAndForks, MaxStarRepos)}

\* A v4 call whose profile, repo-list and follower requests have answered
\* 200, for every repo list of StatRepoLists, with the GraphQL request
\* still out.
InitStats ==
  /\ now = 0
  /\ variant = "v4"
  /\ storage = <<>>
  /\ pc = "fetching"
  /\ force = FALSE
  /\ \E l \in StatRepoLists :
       res = [k \in FetchNames |->
                IF k = "profile" THEN [st |-> "ok", v |-> <<1>>, reset |-> 0]
                ELSE IF k = "followers" THEN [st |-> "ok", v |-> <<<<1>>>>, reset |-> 0]
                ELSE IF k = "repos" THEN [st |-> "ok", v |-> <<l>>, reset |-> 0]
                ELSE Pending]
  /\ agg = <<>>
  /\ ret = NoRet
  /\ requests = FetchNames
  /\ storage0 = <<>>
  /\ written = <<>>
  /\ AppIdle
  /\ CmpIdle

SpecStats == InitStats /\ [][NextAgg]_vars

\* ================================================================ the App
\* What the four fetchers of part_005 resolve with when the server holds
\* payload v.  The App never looks inside these values.  The pins carry a
\* description that the mapping of the proxy answer left undefined, the one
\* case in which the value does not survive JSON unchanged.
AppPinned(v) == <<Repo(1, v, "undefined")>>

AppData(v) ==
  [user |-> v, repos |-> MkRepos(<<1, v>>), pinnedRepos |-> AppPinned(v),
   followers |-> <<v>>]

\* One loadData call: its arguments; plain, the number of the three
\* single-request fetchers (fetchProfile, fetchRepos, fetchFollowers) that
\* are still out (loadData treats them alike: the same handleResponse, and
\* their values are only used together after the join); pinned, where
\* fetchPinnedRepos stands: "out" (the proxy request or, after a proxy that
\* failed or had nothing, the fallback request is out: the switch between
\* the two changes nothing the App can see), "ok" (resolved); timer,
\* whether minLoadTime has resolved.
PLAIN_FETCHERS == 3

NewLoad(isInitial, isManual) ==
  [initial |-> isInitial, manual |-> isManual,
   plain |-> PLAIN_FETCHERS, pinned |-> "out",
   timer |-> ~isInitial]

AllOk(l) == l.plain = 0 /\ l.pinned = "ok"

\* the bag of calls in flight without l, with l replaced by l1, with l added
Without(l)       == loads (-) SetToBag({l})
Replaced(l, l1)  == (loads (-) SetToBag({l})) (+) SetToBag({l1})
With(l)          == loads (+) SetToBag({l})
InFlightLoads    == BagToSet(loads)

MainView    == ~loading /\ error = "" /\ user # 0
ErrorScreen == error # "" /\ ~loading

\* PeriodicRefresh lives inside the error screen: its stage is kept while the
\* screen stays, and is "idle" again whenever the screen is (re)mounted
StageKept(err1, loading1) ==
  IF ErrorScreen /\ err1 # "" /\ ~loading1 THEN stage ELSE "idle"

\* The App right after mount, more than a TTL after time 0: the mount effect
\* has looked for a cache entry (one saved by a visit at time 0, or none) and
\* loadData(true) is out.  The clock stands still from here on: loadData
\* reads it only to stamp what it saves and to make up a reset time.
MountTime == CACHE_TTL + MaxSlack

InitApp ==
  /\ now = MountTime
  /\ SvcIdle("v2")
  /\ CmpIdle
  /\ appCache \in {<<>>, <<JSONstringify(WithTimestamp(AppData(1), 0))>>}
  /\ cacheAvailable = (appCache # <<>>)
  /\ loads = SetToBag({NewLoad(TRUE, FALSE)})
  /\ loading = TRUE /\ user = 0 /\ repos = <<>> /\ pinnedRepos = <<>> /\ followers = <<>>
  /\ error = "" /\ rateLimitReset = 0
  /\ usingCachedData = FALSE /\ showRateLimitDialog = FALSE
  /\ stage = "idle"

\* loadData after its await: the try block from line 128, the catch block
\* when saveToCache throws (quota), and finally
OnLoaded(l, v, quota) ==
  LET data == AppData(v)
  IN  /\ user' = data.user
      /\ repos' = data.repos
      /\ pinnedRepos' = data.pinnedRepos
      /\ followers' = data.followers
      /\ rateLimitReset' = 0
      /\ usingCachedData' = FALSE
      /\ showRateLimitDialog' = FALSE
      /\ IF quota
         THEN /\ error' = IF l.manual THEN "" ELSE "Network Connection Error"
              /\ UNCHANGED <<appCache, cacheAvailable>>
         ELSE /\ error' = ""
              /\ appCache' = <<JSONstringify(WithTimestamp(data, now))>>
              /\ cacheAvailable' = TRUE
      /\ loading' = IF l.initial THEN FALSE ELSE loading
      /\ stage' = StageKept(error', loading')

\* new Error(`GitHub API Error: ${response.statusText}`) for a status other
\* than 403 and 429 whose status text itself says 'Rate Limit'
NamedRateLimit == [st |-> "err", v |-> <<>>, reset |-> 0, msg |-> "Rate Limit"]

\* err instanceof RateLimitError || err.resetTime || err.message.includes('Rate Limit')
isRateLimit(r) ==
  r.st = "rl" \/ Truthy(r.reset) \/ ("msg" \in DOMAIN r /\ r.msg = "Rate Limit")

\* err.resetTime || (Math.floor(Date.now() / 1000) + 3600)
resetTimeOr(r, t) == IF Truthy(r.reset) THEN r.reset ELSE (t \div 1000) + RESET_FALLBACK_SECS

\* the catch block without the isManualRefresh distinction
OnFailed_alwaysBlocks(l, r) ==
      /\ IF isRateLimit(r)
         THEN /\ rateLimitReset' = resetTimeOr(r, now)
              /\ error' = "Out of Coffee Beans" /\ UNCHANGED showRateLimitDialog
         ELSE /\ error' = "Network Connection Error"
              /\ UNCHANGED <<rateLimitReset, showRateLimitDialog>>
      /\ loading' = IF l.initial THEN FALSE ELSE loading
      /\ stage' = StageKept(error', loading')
      /\ UNCHANGED <<user, repos, pinnedRepos, followers, usingCachedData,
                     cacheAvailable, appCache>>

\* the catch block with its else branch setting nothing
OnFailed_silent(l, r) ==
      /\ IF isRateLimit(r)
         THEN /\ rateLimitReset' = resetTimeOr(r, now)
              /\ IF l.manual
                 THEN showRateLimitDialog' = TRUE /\ error' = error
                 ELSE error' = "Out of Coffee Beans" /\ UNCHANGED showRateLimitDialog
         ELSE UNCHANGED <<error, rateLimitReset, showRateLimitDialog>>
      /\ loading' = IF l.initial THEN FALSE ELSE loading
      /\ stage' = StageKept(error', loading')
      /\ UNCHANGED <<user, repos, pinnedRepos, followers, usingCachedData,
                     cacheAvailable, appCache>>

\* loadData after its await: the catch block for a rejected fetch, and finally
OnFailed(l, r) ==
      /\ IF isRateLimit(r)
         THEN /\ rateLimitReset' = resetTimeOr(r, now)
              /\ IF l.manual
                 THEN showRateLimitDialog' = TRUE /\ error' = error
                 ELSE error' = "Out of Coffee Beans" /\ UNCHANGED showRateLimitDialog
         ELSE /\ error' = IF l.manual THEN error ELSE "Network Connection Error"
              /\ UNCHANGED <<rateLimitReset, showRateLimitDialog>>
      /\ loading' = IF l.initial THEN FALSE ELSE loading
      /\ stage' = StageKept(error', loading')
      /\ UNCHANGED <<user, repos, pinnedRepos, followers, usingCachedData,
                     cacheAvailable, appCache>>

\* both promises of Promise.all([fetchPromise, minLoadTime]) are fulfilled
Joined(l) == AllOk(l) /\ l.timer

AfterProgress(l, l1) ==
  IF Joined(l1)
  THEN /\ loads' = Without(l)
       /\ \E v \in UserVals, quota \in BOOLEAN : OnLoaded(l1, v, quota)
  ELSE /\ loads' = Replaced(l, l1)
       /\ UNCHANGED <<loading, user, repos, pinnedRepos, followers, error, rateLimitReset,
                      usingCachedData, cacheAvailable, showRateLimitDialog, appCache, stage>>

\* fetchProfile, fetchRepos or fetchFollowers of load l answers 200
PlainFetchOk(l) ==
  /\ l.plain > 0
  /\ AfterProgress(l, [l EXCEPT !.plain = @ - 1])
  /\ UNCHANGED <<now, svcVars, cmpVars>>

\* fetchPinnedRepos of load l resolves: the proxy answered a non-empty
\* array, or the API fallback answered 200
PinnedFetchOk(l) ==
  /\ l.pinned = "out"
  /\ AfterProgress(l, [l EXCEPT !.pinned = "ok"])
  /\ UNCHANGED <<now, svcVars, cmpVars>>

\* a request of load l that goes through handleResponse (one of the plain
\* fetchers, or the API fallback of fetchPinnedRepos after its proxy failed
\* or had nothing) is rejected: the first rejection rejects Promise.all and
\* ends the load
SubFetchFails(l) ==
  /\ l.pinned = "out" \/ l.plain > 0
  /\ \E r \in {handleResponse("app", "ratelimit", h, <<>>, now) : h \in ResetHeaders}
              \cup {handleResponse("app", "http", <<>>, <<>>, now), NamedRateLimit,
                    NetworkFailure} :
       OnFailed(l, r)
  /\ loads' = Without(l)
  /\ UNCHANGED <<now, svcVars, cmpVars>>

\* setTimeout(resolve, 3500) of the initial load
MinLoadTimerFires(l) ==
  /\ ~l.timer
  /\ AfterProgress(l, [l EXCEPT !.timer = TRUE])
  /\ UNCHANGED <<now, svcVars, cmpVars>>

\* Navbar onRefresh: loadData(false, true)
ManualRefresh ==
  /\ MainView
  /\ BagCardinality(loads) < MaxLoads
  /\ loads' = With(NewLoad(FALSE, TRUE))
  /\ UNCHANGED <<now, svcVars, cmpVars, loading, user, repos, pinnedRepos, followers, error,
                 rateLimitReset, usingCachedData, cacheAvailable, showRateLimitDialog,
                 appCache, stage>>

\* the backdrop or the button of the rate-limit dialog
DismissRateLimitDialog ==
  /\ MainView
  /\ showRateLimitDialog
  /\ showRateLimitDialog' = FALSE
  /\ UNCHANGED <<now, svcVars, cmpVars, loading, user, repos, pinnedRepos, followers, error,
                 rateLimitReset, usingCachedData, cacheAvailable, appCache, loads, stage>>

\* loadFromCache without setError(null)
handleProceedWithCache_keepsError ==
  /\ ErrorScreen
  /\ cacheAvailable
  /\ IF appCache # <<>> /\ ~ParseThrows(appCache[1])
     THEN LET data == JSONparse(appCache[1])
          IN  /\ user' = data.user
              /\ repos' = data.repos
              /\ pinnedRepos' = data.pinnedRepos
              /\ followers' = data.followers
              /\ usingCachedData' = TRUE
     ELSE UNCHANGED <<user, repos, pinnedRepos, followers, usingCachedData>>
  /\ UNCHANGED <<now, svcVars, cmpVars, loading, rateLimitReset, cacheAvailable, showRateLimitDialog,
                 appCache, loads, error, stage>>

\* handleProceedWithCache -> loadFromCache
handleProceedWithCache ==
  /\ ErrorScreen
  /\ cacheAvailable
  /\ IF appCache # <<>> /\ ~ParseThrows(appCache[1])
     THEN LET data == JSONparse(appCache[1])
          IN  /\ user' = data.user
              /\ repos' = data.repos
              /\ pinnedRepos' = data.pinnedRepos
              /\ followers' = data.followers
              /\ usingCachedData' = TRUE
              /\ error' = ""
     ELSE UNCHANGED <<user, repos, pinnedRepos, followers, usingCachedData, error>>
  /\ stage' = StageKept(error', loading)
  /\ UNCHANGED <<now, svcVars, cmpVars, loading, rateLimitReset, cacheAvailable, showRateLimitDialog,
                 appCache, loads>>

\* the interval callback without its `if (stage === 'idle')`
IntervalTick_anyStage ==
  /\ ErrorScreen
  /\ stage # "dropping"
  /\ stage' = "dropping"
  /\ UNCHANGED <<now, svcVars, cmpVars, loading, user, repos, pinnedRepos, followers, error,
                 rateLimitReset, usingCachedData, cacheAvailable, showRateLimitDialog,
                 appCache, loads>>

\* PeriodicRefresh: the 5 s interval finds the stage idle
IntervalTick ==
  /\ ErrorScreen
  /\ stage = "idle"
  /\ stage' = "dropping"
  /\ UNCHANGED <<now, svcVars, cmpVars, loading, user, repos, pinnedRepos, followers, error,
                 rateLimitReset, usingCachedData, cacheAvailable, showRateLimitDialog,
                 appCache, loads>>

\* PeriodicRefresh handleDropComplete: splash, and onRefresh = loadData(false, false)
handleDropComplete ==
  /\ ErrorScreen
  /\ stage = "dropping"
  /\ BagCardinality(loads) < MaxLoads
  /\ stage' = "splashing"
  /\ loads' = With(NewLoad(FALSE, FALSE))
  /\ UNCHANGED <<now, svcVars, cmpVars, loading, user, repos, pinnedRepos, followers, error,
                 rateLimitReset, usingCachedData, cacheAvailable, showRateLimitDialog,
                 appCache>>

\* PeriodicRefresh handleSplashComplete
handleSplashComplete ==
  /\ ErrorScreen
  /\ stage = "splashing"
  /\ stage' = "idle"
  /\ UNCHANGED <<now, svcVars, cmpVars, loading, user, repos, pinnedRepos, followers, error,
                 rateLimitReset, usingCachedData, cacheAvailable, showRateLimitDialog,
                 appCache, loads>>

NextApp ==
  \/ \E l \in InFlightLoads : PlainFetchOk(l)
  \/ \E l \in InFlightLoads : PinnedFetchOk(l)
  \/ \E l \in InFlightLoads : SubFetchFails(l)
  \/ \E l \in InFlightLoads : MinLoadTimerFires(l)
  \/ ManualRefresh
  \/ DismissRateLimitDialog
  \/ handleProceedWithCache
  \/ IntervalTick
  \/ handleDropComplete
  \/ handleSplashComplete

SpecApp == InitApp /\ [][NextApp]_vars

\* the App together with its countdown; the clock stands still as in SpecApp,
\* so a tick rewrites the text only when the target has changed since
NextTimer == NextApp \/ CountdownTick

SpecTimer == InitApp /\ [][NextTimer]_vars

\* ============================================================ fetchReadme
\* Three copies: githubService.ts ("v2") and part_004 ("v4") de-duplicate the
\* candidate branches and return { content, branch }; part_005 ("app") takes
\* the three candidates as they are and returns the content alone.
ReadmeImpls == {"v2", "v4", "app"}
RepoNames   == 1..MaxVal
Branches    == {"main", "master", "dev"}
Contents    == 1..MaxVal

\* Array.from(new Set(l)): the first occurrence of every element, in order
RECURSIVE Dedup(_)
Dedup(l) ==
  IF l = <<>> THEN <<>>
  ELSE LET front == Dedup(SubSeq(l, 1, Len(l) - 1))
           last  == l[Len(l)]
       IN  IF \E i \in 1..Len(front) : front[i] = last THEN front ELSE Append(front, last)

\* const branches = ...
branchesOf(impl, initialBranch) ==
  IF impl = "app" THEN <<initialBranch, "master", "main">>
  ELSE Dedup(<<initialBranch, "master", "main">>)

\* what the call returns when the request for branch b answered with text c
readmeResult(impl, c, b) ==
  IF impl = "app" THEN [content |-> c] ELSE [content |-> c, branch |-> b]

\* fetchReadme(repoName, initialBranch) up to its first await: the request
\* for the first candidate is out
fetchReadme(impl, repoName, initialBranch) ==
  /\ readme.pc \in {"idle", "done"}
  /\ LET bs == branchesOf(impl, initialBranch)
     IN  readme' = [pc |-> "running", impl |-> impl, repo |-> repoName,
                    initial |-> initialBranch, todo |-> bs, tried |-> <<bs[1]>>]
  /\ UNCHANGED <<now, svcVars, appVars, modal, viewVars>>

\* the request in flight answered 200 and its text was read: return
ReadmeFound ==
  /\ readme.pc = "running"
  /\ \E c \in Contents :
       readme' = [pc |-> "done", impl |-> readme.impl, repo |-> readme.repo,
                  initial |-> readme.initial, tried |-> readme.tried,
                  out |-> <<readmeResult(readme.impl, c, Head(readme.todo))>>]
  /\ UNCHANGED <<now, svcVars, appVars, modal, viewVars>>

\* the request in flight answered non-OK, or fetch or response.text() threw
\* (caught inside the loop): on to the next candidate, or return null
ReadmeMissing ==
  /\ readme.pc = "running"
  /\ IF Len(readme.todo) > 1
     THEN readme' = [readme EXCEPT !.todo = Tail(@), !.tried = Append(@, readme.todo[2])]
     ELSE readme' = [pc |-> "done", impl |-> readme.impl, repo |-> readme.repo,
                     initial |-> readme.initial, tried |-> readme.tried, out |-> <<>>]
  /\ UNCHANGED <<now, svcVars, appVars, modal, viewVars>>

InitReadme == now = 0 /\ SvcIdle("v2") /\ AppIdle /\ CmpIdle

NextReadme ==
  \/ \E impl \in ReadmeImpls, n \in RepoNames, b \in Branches : fetchReadme(impl, n, b)
  \/ ReadmeFound
  \/ ReadmeMissing

SpecReadme == InitReadme /\ [][NextReadme]_vars

\* ========================================================= RepoStatsModal
MAX_RETRIES_four == 3 + 1

MAX_RETRIES == 3

\* what the participation endpoint can do to one request
ParticipationResponses ==
  {[kind |-> "ok", body |-> c] : c \in Contents}
    \cup {[kind |-> k, body |-> 0] : k \in {"accepted", "ratelimit", "http", "badjson", "net"}}

\* fetchRepoParticipation: 202 and every non-OK status give null, an answer
\* that is not JSON and a network error are caught and give null
fetchRepoParticipation(resp) ==
  [st |-> "ok", reset |-> 0, v |-> IF resp.kind = "ok" THEN <<resp.body>> ELSE <<>>]

\* the effect body: loadStats() sets loading and sends the request
loadStats(m) ==
  [m EXCEPT !.loading = TRUE, !.fetch = "out", !.timer = FALSE, !.requested = @ + 1]

\* the modal is mounted for a repo: useState initial values, first effect run
OpenModal ==
  /\ ~modal.open
  /\ modal' = loadStats([ModalClosed(modal.orphan) EXCEPT !.open = TRUE])
  /\ UNCHANGED <<now, svcVars, appVars, readme, viewVars>>

\* the request of the current effect run settles: loadStats after its await
ParticipationSettles ==
  /\ modal.open /\ modal.fetch = "out"
  /\ \E resp \in ParticipationResponses :
       LET stats == fetchRepoParticipation(resp)
       IN  modal' =
             IF Rejected(stats)
             THEN [modal EXCEPT !.fetch = "none", !.loading = FALSE]
             ELSE IF stats.v = <<>> /\ modal.retryCount < MAX_RETRIES
             THEN [modal EXCEPT !.fetch = "none", !.timer = TRUE]
             ELSE [modal EXCEPT !.fetch = "none", !.data = stats.v, !.loading = FALSE]
  /\ UNCHANGED <<now, svcVars, appVars, readme, viewVars>>

\* the 2 s timeout fires: setRetryCount(prev => prev + 1), which cleans the
\* effect up and runs it again
RetryTimerFires ==
  /\ modal.open /\ modal.timer
  /\ modal' = loadStats([modal EXCEPT !.retryCount = @ + 1])
  /\ UNCHANGED <<now, svcVars, appVars, readme, viewVars>>

\* onClose: the modal is unmounted; the cleanup clears the timeout and turns
\* mounted off, a request still out is left to settle on its own
CloseModal ==
  /\ modal.open
  /\ modal' = ModalClosed(modal.orphan \/ modal.fetch = "out")
  /\ UNCHANGED <<now, svcVars, appVars, readme, viewVars>>

\* requests of unmounted modals settle: if (!mounted) return
OrphanSettles ==
  /\ modal.orphan
  /\ modal' = [modal EXCEPT !.orphan = FALSE]
  /\ UNCHANGED <<now, svcVars, appVars, readme, viewVars>>

\* ========================================================= RepoCard (README)
MaxFetches == 2

\* what fetchReadme of githubService.ts resolves with: null, or the text of
\* the README (which may be empty) and the branch that had it
ReadmeResults ==
  {<<>>} \cup {<<[content |-> c, branch |-> b]>> : c \in {"", "# readme"}, b \in {"main", "master"}}

\* `!readme` of a string or null
NoReadme(r) == r = <<>> \/ r[1] = ""

\* a RepoCard is mounted: the useState initial values
MountCard ==
  /\ ~card.mounted
  /\ card' = [CardUnmounted(card.orphans, card.late) EXCEPT !.mounted = TRUE]
  /\ UNCHANGED <<now, svcVars, appVars, readme, modal, analysis, timeLeftStr, pager, grid>>

\* a click on the header, up to the await of toggleExpand: with the card
\* collapsed and no README text the fetch goes out, otherwise the card flips
toggleExpand ==
  /\ card.mounted
  /\ IF ~card.expanded /\ NoReadme(card.readme)
     THEN /\ card.inFlight + card.orphans < MaxFetches
          /\ card' = [card EXCEPT !.loadingReadme = TRUE, !.inFlight = @ + 1]
     ELSE card' = [card EXCEPT !.expanded = ~@]
  /\ UNCHANGED <<now, svcVars, appVars, readme, modal, analysis, timeLeftStr, pager, grid>>

\* toggleExpand after its await: it stores the result and then
\* setExpanded(!expanded) with the expanded of the click, which was false
ReadmeSettles ==
  /\ card.mounted /\ card.inFlight > 0
  /\ \E result \in ReadmeResults :
       card' = [card EXCEPT
                  !.readme = IF result # <<>> THEN <<result[1].content>>
                                              ELSE <<"No README found.">>,
                  !.readmeBranch = IF result # <<>> THEN result[1].branch ELSE @,
                  !.loadingReadme = FALSE,
                  !.expanded = TRUE,
                  !.inFlight = @ - 1]
  /\ UNCHANGED <<now, svcVars, appVars, readme, modal, analysis, timeLeftStr, pager, grid>>

\* the card leaves the grid; its fetches stay out
UnmountCard ==
  /\ card.mounted
  /\ card' = CardUnmounted(card.orphans + card.inFlight, card.late)
  /\ UNCHANGED <<now, svcVars, appVars, readme, modal, analysis, timeLeftStr, pager, grid>>

\* the fetch of a card that is gone settles: toggleExpand goes on to call
\* setReadme, setLoadingReadme and setExpanded, nothing holds it back
OrphanReadmeSettles ==
  /\ card.orphans > 0
  /\ card' = [card EXCEPT !.orphans = @ - 1, !.late = TRUE]
  /\ UNCHANGED <<now, svcVars, appVars, readme, modal, analysis, timeLeftStr, pager, grid>>

\* a repo card and its stats modal
InitCards == now = 0 /\ SvcIdle("v2") /\ AppIdle /\ CmpIdle

NextCards ==
  \/ MountCard
  \/ toggleExpand
  \/ ReadmeSettles
  \/ UnmountCard
  \/ OrphanReadmeSettles
  \/ OpenModal
  \/ ParticipationSettles
  \/ RetryTimerFires
  \/ CloseModal
  \/ OrphanSettles

SpecCards == InitCards /\ [][NextCards]_vars

\* every request is answered in the end and the 2 s timeout fires unless it
\* is cleared
SpecCardsFair ==
  /\ SpecCards
  /\ WF_vars(ParticipationSettles)
  /\ WF_vars(RetryTimerFires)

\* ------------------------------------------------- the best-effort lookups
\* A v4 call whose profile, repo-list and follower requests have answered
\* 200 with the GraphQL request still out, and the stats modal closed.
InitLookups ==
  /\ now = 0
  /\ variant = "v4"
  /\ storage = <<>>
  /\ pc = "fetching"
  /\ force = FALSE
  /\ \E l \in RepoLists :
       res = [k \in FetchNames |->
                IF k = "profile" THEN [st |-> "ok", v |-> <<1>>, reset |-> 0]
                ELSE IF k = "followers" THEN [st |-> "ok", v |-> <<<<1>>>>, reset |-> 0]
                ELSE IF k = "repos" THEN [st |-> "ok", v |-> <<l>>, reset |-> 0]
                ELSE Pending]
  /\ agg = <<>>
  /\ ret = NoRet
  /\ requests = FetchNames
  /\ storage0 = <<>>
  /\ written = <<>>
  /\ AppIdle
  /\ CmpIdle

NextLookups ==
  \/ PinnedGraphQLSettles
  \/ TagsSettle
  \/ OpenModal
  \/ ParticipationSettles
  \/ RetryTimerFires
  \/ CloseModal
  \/ OrphanSettles

SpecLookups == InitLookups /\ [][NextLookups]_vars

\* ======================================================= checked properties
\* Structural equality of two values read from JSON or about to be written
\* to it: a property whose value is undefined counts as absent.
Prop(r, k) == IF k \in DOMAIN r THEN r[k] ELSE "undefined"

StructEqRepo(a, b) ==
  /\ a.name = b.name
  /\ a.stars = b.stars
  /\ Prop(a, "description") = Prop(b, "description")

StructEqList(a, b) ==
  /\ Len(a) = Len(b)
  /\ \A i \in 1..Len(a) : StructEqRepo(a[i], b[i])

SnapshotEq(read, S) ==
  \A k \in DOMAIN S \ {"timestamp"} :
    /\ k \in DOMAIN read
    /\ IF k \in {"repos", "pinnedRepos"} THEN StructEqList(read[k], S[k]) ELSE read[k] = S[k]

\* age of the entry in the slot, when there is a decodable one
HasEntry == storage # <<>> /\ ~ParseThrows(storage[1])
EntryAge == now - JSONparse(storage[1]).timestamp

\* C1: getPortfolioData(false) called while the slot holds an entry that is
\* still fresh returns exactly that entry, ends the call at once and has
\* issued no network request and left no sub-fetch in flight.
C1_FreshCacheNoNetwork ==
  [][(getPortfolioData(FALSE) /\ HasEntry /\ EntryAge <= CACHE_TTL)
       => /\ pc' = "done"
          /\ ret' = Returned("cache", JSONparse(storage[1]))
          /\ requests' = {}
          /\ \A k \in FetchNames : ~InFlight(res'[k])
          /\ storage' = storage]_vars

\* C1 witness: a call has returned the cached entry without any request
C1_Witness ==
  /\ pc = "done" /\ ret.via = "cache" /\ requests = {}
  /\ HasEntry /\ ret.val = <<JSONparse(storage[1])>> /\ now > 0

\* C2 as stated: the fresh read of getPortfolioData(false) hits exactly when
\* the age of the entry is below the TTL, and misses at age = TTL.
C2_FreshReadStrictlyBelowTTL ==
  [][getPortfolioData(FALSE)
       => (ret'.via = "cache" <=> (HasEntry /\ EntryAge < CACHE_TTL))]_vars

\* C2 amended: the fresh read hits exactly when the age of the entry is at
\* most the TTL (age = TTL still hits, every age above the TTL misses), a hit
\* returns the stored entry, and the entry stored by an accepted write(S) is
\* S stamped with the time of the write, so that a read at that same instant
\* returns S.
C2_FreshReadUpToTTL ==
  /\ [][getPortfolioData(FALSE)
          => IF HasEntry /\ EntryAge <= CACHE_TTL
             THEN ret' = Returned("cache", JSONparse(storage[1]))
             ELSE ret'.via # "cache"]_vars
  /\ [][(storage' # storage /\ storage' # <<>>)
          => /\ written' # <<>>
             /\ getCache(storage', now') # <<>>
             /\ SnapshotEq(getCache(storage', now')[1], written'[1])
             /\ getCache(storage', now')[1].timestamp = now']_vars

\* C2 witness: a fresh read at age exactly TTL has returned the entry
C2_Witness ==
  /\ pc = "done" /\ ret.via = "cache"
  /\ now - ret.val[1].timestamp = CACHE_TTL

\* C3 as stated: once a snapshot S has been written, the stale read of the
\* slot returns a value structurally equal to S, whatever time has passed
\* and whatever fresh reads took place since.
C3_StaleReadReturnsWritten ==
  written # <<>> => /\ readStale(storage) # <<>>
                    /\ SnapshotEq(readStale(storage)[1], written[1])

\* C4 as stated: when a required fetch of the v2 pass is rejected with
\* RateLimited and the slot held a written snapshot when the call was made,
\* the call returns that snapshot instead of throwing.
C4_RateLimitServesStale ==
  (variant = "v2" /\ pc = "done" /\ storage0 # <<>>
     /\ \E k \in FetchNames : res[k].st = "rl")
  => /\ ret.kind = "value"
     /\ ret.val = readStale(storage0)

\* C6: in the v4 pass, once the profile fetch has failed (rate limit, other
\* HTTP failure or network failure) the slot is what it was when the call was
\* made, the tag lookups are never started, and the call ends with an error,
\* whatever the other three sub-fetches did.
ProfileFailed == res["profile"].st \in {"rl", "null", "net"}

C6_ProfileFailureNoWrite ==
  (variant = "v4" /\ ProfileFailed)
  => /\ storage = storage0
     /\ pc # "tagging"
     /\ pc = "done" => ret.kind = "error"

\* C6 witness: the profile answered a non-rate-limit HTTP failure, the other
\* three were fulfilled, the call has thrown and an earlier snapshot is intact
C6_Witness ==
  /\ variant = "v4" /\ pc = "done" /\ res["profile"].st = "null"
  /\ \A k \in FetchNames \ {"profile"} : res[k].st = "ok"
  /\ ret.kind = "error" /\ storage # <<>> /\ storage = storage0

\* C7 as stated: in the v4 pass a profile, repo-list, follower or pinned
\* fetch that failed with RateLimited or with another HTTP failure makes the
\* call end with an error; it is never turned into an empty result that the
\* pass aggregates and persists.
FailedHttp(r) ==
  \/ r.st \in {"rl", "null", "err"}
  \/ r.st = "caught" /\ r.cause \in {"rl", "null", "err"}

C7_FailuresReachAggregator ==
  (variant = "v4" /\ pc = "done" /\ \E k \in FetchNames : FailedHttp(res[k]))
  => ret.kind = "error"

\* C8: in a v4 snapshot built without GraphQL pins, the pinned list is the
\* first min(6, n) entries of the repo list ordered by stars descending,
\* entries of equal stars in repo-list order.
Pos(l, r) == CHOOSE i \in 1..Len(l) : l[i] = r

Before(l, a, b) ==
  a.stars > b.stars \/ (a.stars = b.stars /\ Pos(l, a) < Pos(l, b))

IsTopStarred(p, l) ==
  /\ Len(p) = Min(PINNED_LIMIT, Len(l))
  /\ \A j \in 1..Len(p) : \E i \in 1..Len(l) : l[i] = p[j]
  /\ \A j, k \in 1..Len(p) : j < k => Before(l, p[j], p[k])
  /\ \A i \in 1..Len(l) :
       (\A j \in 1..Len(p) : p[j] # l[i]) => \A j \in 1..Len(p) : Before(l, p[j], l[i])

NoGraphQLPins == res["pinned"].st = "caught" \/ res["pinned"].v = <<<<>>>>

C8_PinnedFallbackTopStarred ==
  (pc = "done" /\ ret.kind = "value" /\ ret.via = "network" /\ NoGraphQLPins)
  => /\ IsTopStarred(ret.val[1].pinnedRepos, ret.val[1].repos)
     /\ ret.val[1].repos = OrEmpty(res["repos"])

\* C8 witness: GraphQL failed, the repo list has more than six entries, and
\* a repo was cut that has as many stars as one that was kept
C8_Witness ==
  /\ pc = "done" /\ ret.kind = "value" /\ res["pinned"].st = "caught"
  /\ Len(ret.val[1].repos) > PINNED_LIMIT
  /\ \E i \in 1..Len(ret.val[1].repos) :
       /\ \A j \in 1..Len(ret.val[1].pinnedRepos) : ret.val[1].pinnedRepos[j] # ret.val[1].repos[i]
       /\ \E j \in 1..Len(ret.val[1].pinnedRepos) :
            ret.val[1].pinnedRepos[j].stars = ret.val[1].repos[i].stars

\* C5 as stated: when storage rejects the write of an otherwise successful
\* load (the quota is exceeded), nothing of it reaches the user: the fetched
\* data is displayed and no blocking error is set.
QuotaDuringLoad ==
  \E l \in InFlightLoads, v \in UserVals :
    /\ loads' = Without(l)
    /\ OnLoaded(l, v, TRUE)

C5_StorageFailureInvisible ==
  [][QuotaDuringLoad => (error' = "" /\ user' # 0 /\ MainView')]_vars

\* C9: whenever the blocking error screen is up and the slot holds an entry,
\* 'Proceed with Last Data' is offered; invoking it shows user, repos, pinned
\* repos and followers of that entry whatever its age, clears the blocking
\* error so that the main view is up, and starts no fetch.
C9_ProceedWithLastData ==
  /\ []((ErrorScreen /\ appCache # <<>>) => cacheAvailable)
  /\ [][(handleProceedWithCache /\ appCache # <<>>)
          => LET d == JSONparse(appCache[1])
             IN  /\ user' = d.user
                 /\ StructEqList(repos', d.repos)
                 /\ StructEqList(pinnedRepos', d.pinnedRepos)
                 /\ followers' = d.followers
                 /\ error' = ""
                 /\ MainView'
                 /\ loads' = loads
                 /\ appCache' = appCache]_vars

\* C9 witness: the initial load was rate limited, the user proceeded with an
\* entry older than the TTL, and the main view shows it with no fetch out
C9_Witness ==
  /\ MainView /\ usingCachedData /\ rateLimitReset # 0
  /\ loads = EmptyBag
  /\ appCache # <<>>
  /\ now - JSONparse(appCache[1]).timestamp > CACHE_TTL
  /\ user = JSONparse(appCache[1]).user

\* C10: the step in which a manual refresh is rejected with RateLimited turns
\* the dialog on and leaves the blocking error, user, repos, pinned repos and
\* followers as they were, so a main view stays a main view; dismissing the
\* dialog turns it off and leaves the main view and its data as they were.
ManualRateLimited ==
  \E l \in InFlightLoads, h \in ResetHeaders :
    /\ l.manual
    /\ loads' = Without(l)
    /\ OnFailed(l, handleResponse("app", "ratelimit", h, <<>>, now))

SameData ==
  /\ user' = user /\ repos' = repos /\ pinnedRepos' = pinnedRepos /\ followers' = followers

C10_ManualRefreshKeepsView ==
  /\ [][ManualRateLimited
          => /\ showRateLimitDialog'
             /\ error' = error
             /\ SameData
             /\ MainView => MainView']_vars
  /\ [][DismissRateLimitDialog
          => /\ ~showRateLimitDialog'
             /\ error' = "" /\ MainView'
             /\ SameData
             /\ loads' = loads]_vars

\* C10 witness: the dialog is up over the main view after a rate-limited
\* manual refresh
C10_Witness ==
  /\ MainView /\ showRateLimitDialog /\ rateLimitReset # 0 /\ ~usingCachedData

\* ---------------------------------------------------------------- C11
\* the failures that are no rate limit: a status other than 403 and 429
\* (with a status text that does not say 'Rate Limit'), and a network error
NonRateLimitFailures == {handleResponse("app", "http", <<>>, <<>>, now), NetworkFailure}

\* the step in which load l ends because one of its fetches rejected with r
LoadFailsWith(l, r) == loads' = Without(l) /\ OnFailed(l, r)

\* the failed load took nothing from the cache slot and left the slot alone
CacheNotRead ==
  /\ SameData
  /\ usingCachedData' = usingCachedData
  /\ appCache' = appCache

\* C11 as stated: every load, whatever its kind, that fails with a failure
\* that is no rate limit ends with the generic connectivity error set and
\* without reading the cache.
C11_EveryFailureSurfacesError ==
  [][\A l \in InFlightLoads, r \in NonRateLimitFailures :
       LoadFailsWith(l, r) => (error' = "Network Connection Error" /\ CacheNotRead)]_vars

\* C11 amended: an initial or background load that fails with a failure that
\* is no rate limit ends with the generic connectivity error set; a manual
\* refresh that fails so leaves the error state, the reset target and the
\* dialog as they were; neither reads the cache.
C11_FailureSurfacesUnlessManual ==
  [][\A l \in InFlightLoads, r \in NonRateLimitFailures :
       LoadFailsWith(l, r)
         => /\ error' = IF l.manual THEN error ELSE "Network Connection Error"
            /\ l.manual => UNCHANGED <<rateLimitReset, showRateLimitDialog>>
            /\ CacheNotRead]_vars

\* C11 witness: the initial load failed with the connectivity error while the
\* slot held an entry, and nothing of the entry is shown
C11_Witness ==
  /\ ErrorScreen /\ error = "Network Connection Error"
  /\ appCache # <<>> /\ user = 0 /\ ~usingCachedData

\* ---------------------------------------------------------------- C12
\* the step in which load l ends because a fetch answered 403 or 429 with
\* reset header h
RateLimitedWith(l, h) == LoadFailsWith(l, handleResponse("app", "ratelimit", h, <<>>, now))

OneHourAhead == (now \div 1000) + RESET_FALLBACK_SECS

\* C12: handleResponse of every variant turns a 403 or 429 into RateLimited
\* carrying what was read from x-ratelimit-reset when the header is present
\* and now + 3600 s when it is absent; the reset target the view ends with
\* after such a failure is a defined number: the header's epoch seconds when
\* the header held a number, now + 3600 s otherwise.
C12_RateLimitCarriesReset ==
  /\ [](\A v \in {"app", "v2", "v4"}, h \in ResetHeaders :
          LET r == handleResponse(v, "ratelimit", h, <<>>, now)
          IN  /\ r.st = "rl"
              /\ r.reset = IF h # <<>> THEN h[1] ELSE OneHourAhead)
  /\ [][\A l \in InFlightLoads, h \in ResetHeaders :
         RateLimitedWith(l, h)
           => /\ Truthy(rateLimitReset')
              /\ rateLimitReset' = IF h # <<>> /\ Truthy(h[1]) THEN h[1] ELSE OneHourAhead]_vars

\* C12 witness: the blocking rate-limit screen counts down to the epoch
\* seconds of the header
C12_Witness ==
  /\ ErrorScreen /\ error = "Out of Coffee Beans"
  /\ rateLimitReset = 3 * RESET_FALLBACK_SECS
  /\ rateLimitReset # OneHourAhead

\* ---------------------------------------------------------------- C13
NoDuplicates(l) == \A i, j \in 1..Len(l) : l[i] = l[j] => i = j

IsPrefix(p, l) == Len(p) <= Len(l) /\ SubSeq(l, 1, Len(p)) = p

\* C13: in every fetchReadme call the branches requested so far are a prefix
\* of initial branch, 'master', 'main' with duplicates removed, so none is
\* requested twice; a call that returns content returns with it the branch of
\* the last request, the first that succeeded; a call returns null only
\* after every candidate was requested, and no call throws.
C13_ReadmeBranchOrder ==
  readme.pc \in {"running", "done"}
    => /\ NoDuplicates(readme.tried)
       /\ IsPrefix(readme.tried, Dedup(<<readme.initial, "master", "main">>))
       /\ readme.pc = "done"
            => IF readme.out # <<>>
               THEN /\ "branch" \in DOMAIN readme.out[1]
                    /\ readme.out[1].branch = readme.tried[Len(readme.tried)]
               ELSE readme.tried = Dedup(<<readme.initial, "master", "main">>)

\* ---------------------------------------------------------------- C14
\* the request of a tag lookup settled with a tag that has a name
FoundTag(r) == r.st = "ok" /\ r.v[1] # <<>> /\ r.v[1][1].name # ""

\* C14: fetchTags and fetchRepoParticipation fulfil their promise whatever
\* the request did, with null unless the answer was usable (a 403 or 429,
\* any other non-OK status, a 202, an unreadable body and a network error all
\* give null); when the tag lookups of a pass settle the pass returns its
\* snapshot, whose tag map holds exactly the repositories whose lookup found
\* a tag and whose other parts are what was aggregated.
C14_LookupsNeverThrow ==
  /\ [](\A r \in TagOutcomes :
          /\ Fulfilled(fetchTags(r))
          /\ fetchTags(r).v = IF FoundTag(r) THEN <<r.v[1][1].name>> ELSE <<>>)
  /\ [](\A resp \in ParticipationResponses :
          /\ Fulfilled(fetchRepoParticipation(resp))
          /\ resp.kind # "ok" => fetchRepoParticipation(resp).v = <<>>)
  /\ [][pc = "tagging"
         => \A resp \in TagLookups(Names(agg[1].toTag)), quota \in BOOLEAN :
              TagsSettleWith(resp, quota)
                => /\ ret'.kind = "value"
                   /\ DOMAIN ret'.val[1].tags = {n \in DOMAIN resp : FoundTag(resp[n])}
                   /\ ret'.val[1].user = agg[1].user
                   /\ ret'.val[1].repos = agg[1].repos
                   /\ ret'.val[1].pinnedRepos = agg[1].pinnedRepos
                   /\ ret'.val[1].followers = agg[1].followers]_vars

\* C14 witness: a pass has returned a snapshot whose tag map holds one of the
\* repositories looked up and not the others, and the stats modal waits to
\* retry after a null result
C14_Witness ==
  /\ pc = "done" /\ ret.kind = "value"
  /\ DOMAIN ret.val[1].tags # {}
  /\ DOMAIN ret.val[1].tags # Names(ret.val[1].pinnedRepos) \cup Names(ret.val[1].repos)
  /\ modal.open /\ modal.timer /\ modal.data = <<>>

\* ---------------------------------------------------------------- C15
Undecodable(st) == st # <<>> /\ ParseThrows(st[1])

\* C15: an undecodable slot is a cache miss on every read path of the
\* service: the fresh read of getPortfolioData(false) goes on to the network,
\* no call ends with the decode failure, and a call one of whose fetches was
\* rejected with RateLimited and that ends with an error ends with that
\* RateLimited error.
C15_DecodeFailureIsMiss ==
  /\ [][(getPortfolioData(FALSE) /\ Undecodable(storage))
         => (pc' # "done" /\ ret' = NoRet /\ requests' # {})]_vars
  /\ []((pc = "done" /\ ret.kind = "error") => ret.err # "SyntaxError")
  /\ []((pc = "done" /\ ret.kind = "error" /\ \E k \in FetchNames : res[k].st = "rl")
          => ret.err = "RateLimitError")

\* ---------------------------------------------------------------- C16
\* the lowest score of each tier, and the tier a score falls in
TierFloors == <<0, 5, 20, 50, 100>>
TierOf(score) == CHOOSE t \in 1..5 :
  /\ TierFloors[t] <= score
  /\ t < 5 => score < TierFloors[t + 1]

Bonus(repo) ==
  (IF \E d \in {repo.description} : d # <<>> /\ d[1].length >= 51 THEN 5 ELSE 0)
  + (IF \E t \in {repo.topics} : t # <<>> /\ t[1] # <<>> THEN 5 ELSE 0)

\* C16: every rendered card carries the tier of the score
\* 3*stars + 2*forks (+5 for a description longer than 50 characters, +5 for at
\* least one topic) -- Light Roast below 5, Medium Roast 5..19, Dark Roast
\* 20..49, Espresso Blend 50..99, Double Shot Signature from 100 -- and the
\* template at index (id mod 3) of that tier's pool, so the result is a
\* function of the repo alone.
C16_AnalyzeRepoByScore ==
  analysis # <<>> =>
    LET a     == analysis[1]
        r     == a.repo
        score == 3 * r.stargazers_count + 2 * r.forks_count + Bonus(r)
        t     == TierOf(score)
    IN  /\ a.result.roast = Roasts[t]
        /\ Len(descriptions(a.impl)[t]) = 3
        /\ a.result.description.text = descriptions(a.impl)[t][(r.id % 3) + 1]
        /\ \A impl \in AnalyzeImpls : analyzeRepo(impl, r).roast = a.result.roast
        /\ analyzeRepo(a.impl, r) = a.result

\* a card at the floor of the top tier with both bonuses, third template
C16_Witness ==
  /\ analysis # <<>>
  /\ scoreOf(analysis[1].repo) = 100
  /\ Bonus(analysis[1].repo) = 10
  /\ analysis[1].repo.id % 3 = 2
  /\ analysis[1].result.roast = "Double Shot Signature"

\* ---------------------------------------------------------------- C17
Digit(d) == <<"0", "1", "2", "3", "4", "5", "6", "7", "8", "9">>[d + 1]
TwoDigits(n) == IF n < 100 THEN Digit(n \div 10) \o Digit(n % 10) ELSE ToString(n)

\* the milliseconds left until the reset target
Remaining == rateLimitReset * 1000 - now

\* hours, minutes and seconds of rem ms: the only triple with
\* 0 <= m, s < 60 and 0 <= rem - 1000 * (3600 h + 60 m + s) < 1000
IsHMS(rem, h, m, sec) ==
  /\ h >= 0 /\ m \in 0..59 /\ sec \in 0..59
  /\ (rem - 1000 * (3600 * h + 60 * m + sec)) \in 0..999

\* C17: whenever updateTimer runs, the countdown reads 'Ready to
\* brew!' if target*1000 - now <= 0, and otherwise the zero-padded HH:MM:SS of
\* the whole hours, minutes and seconds left, none of them negative; a target
\* 3661 s ahead reads '01:01:01'.
C17_CountdownFormat ==
  [][(now' = now /\ timeLeftStr' # timeLeftStr) =>
       /\ (Remaining <= 0) = (timeLeftStr' = "Ready to brew!")
       /\ Remaining > 0 =>
            \E h \in {Remaining \div 3600000}, m \in 0..59, sec \in 0..59 :
              /\ IsHMS(Remaining, h, m, sec)
              /\ timeLeftStr' = TwoDigits(h) \o ":" \o TwoDigits(m) \o ":" \o TwoDigits(sec)
       /\ Remaining = 3661000 => timeLeftStr' = "01:01:01"]_vars

\* the countdown of a target 3661 s ahead has been written
C17_Witness == Remaining = 3661000 /\ timeLeftStr = "01:01:01"

\* ---------------------------------------------------------------- C18
RateLimitViewShown == showRateLimitDialog \/ error = "Out of Coffee Beans"

\* C18: the countdown runs only while a rate-limit view needs it:
\* once the rate-limit dialog is dismissed, the data is recovered by a fetch,
\* or the user proceeds with the cached data, the reset target is absent, and
\* the countdown text is written only while the dialog or the rate-limit
\* screen is shown.
C18_CountdownOnlyWhileNeeded ==
  /\ [][(showRateLimitDialog /\ ~showRateLimitDialog') => ~CountdownRunning']_vars
  /\ [][(error # "" /\ error' = "") => ~CountdownRunning']_vars
  /\ [][timeLeftStr' # timeLeftStr => RateLimitViewShown]_vars

\* ---------------------------------------------------------------- C19
CycleSteps == {<<"idle", "dropping">>, <<"dropping", "splashing">>, <<"splashing", "idle">>}

\* onRefresh of the error screen: one more loadData(false, false) is out
OnRefreshInvoked == loads' = With(NewLoad(FALSE, FALSE))

\* C19: while PeriodicRefresh stays mounted its stage only steps
\* idle -> dropping -> splashing -> idle, so a cycle starts from idle only;
\* onRefresh is invoked at the step dropping -> splashing and at no other
\* step, once; and when the error screen is gone the stage is idle and
\* onRefresh is not invoked.
C19_RefreshCycle ==
  /\ [][(ErrorScreen /\ ErrorScreen' /\ stage' # stage) => <<stage, stage'>> \in CycleSteps]_vars
  /\ [][OnRefreshInvoked <=> (ErrorScreen /\ stage = "dropping" /\ stage' = "splashing")]_vars
  /\ [][OnRefreshInvoked => BagCardinality(loads') = BagCardinality(loads) + 1]_vars
  /\ [](~ErrorScreen => stage = "idle")

\* a whole cycle has run on the error screen and its refresh is still out
C19_Witness ==
  /\ ErrorScreen
  /\ stage = "idle"
  /\ BagIn(NewLoad(FALSE, FALSE), loads)

\* ---------------------------------------------------------------- C20
\* the places of the list that page p of n followers holds
PlacesOf(p, n) == {i \in 1..n : (p - 1) * 12 < i /\ i <= p * 12}

IsAscending(list) == \A i \in 1..Len(list) - 1 : list[i] < list[i + 1]

\* the least number of pages of 12 that hold n followers
PagesFor(n) == CHOOSE k \in 0..n : k * 12 >= n /\ \A j \in 0..k - 1 : j * 12 < n

\* C20: with 12 followers to a page, page p shows the followers at
\* the places (p-1)*12+1 .. min(p*12, n) in list order, there are ceil(n/12)
\* pages, no step leaves page 1 downwards or the last page upwards, and of 25
\* followers page 1 shows the first twelve and page 3 the 25th alone.
C20_FollowersPagination ==
  /\ [](LET list  == pager.followers
             n     == Len(list)
             p     == pager.currentPage
             shown == currentFollowers(list, p)
         IN  /\ {shown[i] : i \in 1..Len(shown)} = {list[i] : i \in PlacesOf(p, n)}
             /\ Len(shown) = Cardinality(PlacesOf(p, n))
             /\ IsAscending(shown)
             /\ totalPages(list) = PagesFor(n)
             /\ (n = 25 /\ p = 1) => shown = [i \in 1..12 |-> list[i]]
             /\ (n = 25 /\ p = 3) => shown = <<list[25]>>)
  /\ [][pager.currentPage = 1 => pager'.currentPage >= 1]_vars
  /\ [][pager.currentPage = PagesFor(Len(pager.followers))
         => pager'.currentPage <= pager.currentPage]_vars

\* the third page of 25 followers, reached with the next button
C20_Witness ==
  /\ Len(pager.followers) = 25
  /\ pager.currentPage = 3
  /\ currentFollowers(pager.followers, pager.currentPage) = <<25>>
  /\ NextDisabled /\ ~PrevDisabled

\* ---------------------------------------------------------------- C21
\* C21: a pass of getPortfolioData has an outcome (a value or an
\* error) only when none of its four sub-fetches (profile, repos, pinned,
\* followers) is still in flight.
C21_OutcomeAfterAllSettled ==
  (pc = "done" /\ ret.kind # "none") => \A k \in FetchNames : res[k].st # "pending"

\* ---------------------------------------------------------------- C22
\* a modal whose request was out when it was closed: the request settles
ModalLateSettle == modal.orphan /\ ~modal'.orphan

\* C22: a component that was unmounted with a fetch in flight
\* updates no state when the fetch settles, and its retry timer is cancelled:
\* the settling request of a closed stats modal changes nothing of the modal,
\* a closed modal has no timer pending, and no README fetch of an unmounted
\* repo card calls a setter of the card.
C22_NoUpdateAfterUnmount ==
  /\ [][ModalLateSettle => modal' = [modal EXCEPT !.orphan = FALSE]]_vars
  /\ [](~modal.open => ~modal.timer)
  /\ [](~card.late)

\* ---------------------------------------------------------------- C29
\* a click has sent a README fetch for the card
ReadmeFetchIssued == card.mounted /\ card'.mounted /\ card'.inFlight > card.inFlight

\* C29: whatever the clicks on the expand toggle, a card has at
\* most one README fetch in flight, and once a result (the text or the 'not
\* found' placeholder) has been stored it issues no further README fetch.
C29_OneReadmeFetch ==
  /\ [](card.inFlight <= 1)
  /\ [][ReadmeFetchIssued => card.readme = <<>>]_vars

\* ---------------------------------------------------------------- C28
\* C28: one opening of the stats modal requests the participation
\* endpoint at most 4 times, the first attempt and at most 3 retries, each
\* sent by the timeout that a null result has set; and a modal that stays
\* mounted stops loading in the end, with data or with null.
C28_BoundedRetries ==
  /\ [](modal.requested <= 4)
  /\ [](modal.open => modal.requested = modal.retryCount + 1)
  /\ [][(modal.open /\ modal'.open /\ modal'.requested > modal.requested)
         => (modal.timer /\ modal.data = <<>> /\ modal'.requested = modal.requested + 1)]_vars
  /\ [][(modal.open /\ ~modal.timer /\ modal'.timer) => modal.fetch = "out"]_vars
  /\ ((modal.open /\ modal.loading) ~> (~modal.open \/ ~modal.loading))

\* all four attempts came back null and the modal has stopped loading
C28_Witness ==
  /\ modal.open /\ modal.requested = 4
  /\ ~modal.loading /\ modal.data = <<>> /\ modal.fetch = "none" /\ ~modal.timer

\* ---------------------------------------------------------------- C26
\* C26: after every sequence of next and previous clicks and of
\* replacements of the followers list, the current page lies within
\* 1 .. max(1, total pages) and the displayed page is non-empty whenever the
\* list is non-empty.
C26_PageStaysInRange ==
  LET pages == totalPages(pager.followers)
      last  == IF pages > 1 THEN pages ELSE 1
  IN  /\ pager.currentPage \in 1..last
      /\ Len(pager.followers) > 0
           => currentFollowers(pager.followers, pager.currentPage) # <<>>

\* ---------------------------------------------------------------- C23
\* the step in which load l passes its await with all four results
LoadSucceeds(l) ==
  /\ loads' = Without(l)
  /\ PlainFetchOk(l) \/ PinnedFetchOk(l) \/ MinLoadTimerFires(l)

\* the pass whose payload the cache entry holds is the one on display
CacheMatchesDisplay(u, c) == c # <<>> /\ JSONparse(c[1]).user = u

\* C23: with loads in flight together, the one that completes last
\* settles the final state: a load that succeeds leaves its result both on
\* display and in the cache with the error cleared, whatever another load
\* did before it; and the data on display and the cache entry never come
\* from different passes.
C23_LastCompletedWins ==
  /\ [][\A l \in InFlightLoads :
          LoadSucceeds(l) => /\ error' = ""
                             /\ user' # 0
                             /\ CacheMatchesDisplay(user', appCache')]_vars
  /\ []((user # 0 /\ appCache # <<>>) => CacheMatchesDisplay(user, appCache))

\* ---------------------------------------------------------------- C27
\* the main view shows the cached data the user has proceeded with: since
\* loadFromCache nothing has replaced them
ProceededWithCache == MainView /\ usingCachedData

\* a background refresh, loadData(false, false), ends in the catch block
BackgroundLoadFails ==
  \E l \in InFlightLoads : ~l.initial /\ ~l.manual /\ SubFetchFails(l)

\* C27: once the user has proceeded with cached data the main view
\* stays: a background refresh that was started on the error screen before
\* that moment and fails afterwards does not bring the blocking error
\* screen back.
C27_MainViewStaysAfterProceed ==
  [][(ProceededWithCache /\ BackgroundLoadFails) => ~ErrorScreen']_vars

\* ---------------------------------------------------------------- C30
\* the sub-fetches of load l that have not settled
Outstanding(l) == l.plain + (IF l.pinned = "out" THEN 1 ELSE 0)

\* by the end of this step minLoadTime of load l has resolved
TimerFiredBy(l) == l.timer \/ MinLoadTimerFires(l)

\* by the end of this step fetchPromise of load l has settled
PassFinishedBy(l) ==
  Outstanding(l) = 0 \/ PlainFetchOk(l) \/ PinnedFetchOk(l) \/ SubFetchFails(l)

\* C30: on the initial load the loading screen goes away only when
\* both the fetch pass has finished and the 3500 ms timer has fired,
\* whether the pass succeeded or failed.
C30_MinimumSplash ==
  [][(loading /\ ~loading')
       => \E l \in InFlightLoads : /\ l.initial
                                    /\ loads' = Without(l)
                                    /\ TimerFiredBy(l)
                                    /\ PassFinishedBy(l)]_vars

\* ---------------------------------------------------------------- C25
\* the repo list of the call and the stats of the snapshot it returned
StatsInput  == res["repos"].v[1]
StatsReturned == pc = "done" /\ ret.kind = "value" /\ ret.via = "network"

\* the repos whose language is lang, and the place of the first of them
ReposIn(rs, lang)   == {i \in 1..Len(rs) : LanguageOf(rs[i]) = <<lang>>}
FirstSeen(rs, lang) == CHOOSE i \in ReposIn(rs, lang) : \A j \in ReposIn(rs, lang) : i <= j
LanguagesOf(rs)     == {LanguageOf(rs[i])[1] : i \in {j \in 1..Len(rs) : LanguageOf(rs[j]) # <<>>}}

\* language a stands before language b in the ranking of rs
RanksBefore(rs, a, b) ==
  \/ Cardinality(ReposIn(rs, a)) > Cardinality(ReposIn(rs, b))
  \/ /\ Cardinality(ReposIn(rs, a)) = Cardinality(ReposIn(rs, b))
     /\ FirstSeen(rs, a) < FirstSeen(rs, b)

\* C25: calculateStats returns the sums of the stars and of the forks
\* of all repos; at most 5 language entries, the languages with the highest
\* repo counts in descending order of count, equal counts in the order in
\* which the list first shows them; the name of the first repo with the
\* highest star count ('N/A' for an empty list); and 'Double Espresso' for
\* more than 500 stars in total, 'Ristretto' for more than 100, else
\* 'Mild Roast'.
C25_CalculateStats ==
  StatsReturned =>
    LET rs    == StatsInput
        stats == ret.val[1].stats
        top   == stats.topLanguages
        n     == Cardinality(LanguagesOf(rs))
    IN  /\ stats.totalStars = SumStars(rs)
        /\ stats.totalForks = SumForks(rs)
        /\ Len(top) = (IF n < 5 THEN n ELSE 5)
        /\ \A i \in 1..Len(top) :
             /\ top[i].lang \in LanguagesOf(rs)
             /\ top[i].count = Cardinality(ReposIn(rs, top[i].lang))
             /\ Cardinality({b \in LanguagesOf(rs) : RanksBefore(rs, b, top[i].lang)}) = i - 1
        /\ IF rs = <<>> THEN stats.mostStarredRepo = <<>>
           ELSE \E i \in 1..Len(rs) :
                  /\ stats.mostStarredRepo = <<rs[i].name>>
                  /\ \A j \in 1..Len(rs) : rs[j].stars <= rs[i].stars
                  /\ \A j \in 1..(i - 1) : rs[j].stars < rs[i].stars
        /\ stats.brewStrength =
             (IF stats.totalStars > 500 THEN "Double Espresso"
              ELSE IF stats.totalStars > 100 THEN "Ristretto" ELSE "Mild Roast")

\* six repos in five languages: the language of two repos, the fourth to be
\* seen, leads, and the languages of one repo each follow in the order of
\* their first repos
C25_Witness ==
  /\ StatsReturned
  /\ Len(StatsInput) = 6
  /\ Cardinality(LanguagesOf(StatsInput)) = 5
  /\ ret.val[1].stats.topLanguages[1] = [lang |-> 4, count |-> 2]
  /\ ret.val[1].stats.topLanguages[2] = [lang |-> 1, count |-> 1]
  /\ ret.val[1].stats.topLanguages[5] = [lang |-> 5, count |-> 1]

\* ---------------------------------------------------------------- C24
SectionNames(l) == {l[i].name : i \in 1..Len(l)}

\* the names of the repos of either list that pass the filter
MatchingNames(g) ==
  {g.repos[i].name : i \in {j \in 1..Len(g.repos) : filterRepo(g, g.repos[j])}}
    \cup {g.pinnedRepos[i].name :
            i \in {j \in 1..Len(g.pinnedRepos) : filterRepo(g, g.pinnedRepos[j])}}

NoFilters(g) == [g EXCEPT !.searchTerm = "", !.languageFilter = "All"]

\* C24: for every search term and language filter no repository name
\* stands in both the pinned and the general section, every repository that
\* matches the filter stands in exactly one of them, and 'Clear filters'
\* brings back the unfiltered lists.
C24_GridReconciledByName ==
  /\ [](grid.mounted =>
          /\ SectionNames(filteredPinned(grid)) \cap SectionNames(filteredOthers(grid)) = {}
          /\ MatchingNames(grid) \subseteq
               SectionNames(filteredPinned(grid)) \cup SectionNames(filteredOthers(grid)))
  /\ [][(grid.mounted /\ grid' = NoFilters(grid)
            /\ filteredPinned(grid) = <<>> /\ filteredOthers(grid) = <<>>)
         => /\ filteredPinned(grid') = grid.pinnedRepos
            /\ SectionNames(filteredOthers(grid')) =
                 SectionNames(grid.repos) \ SectionNames(grid.pinnedRepos)]_vars

====
